---- MODULE Spec2Model ----
(***************************************************************************)
(* Model of the UptimeSquirrel agent (src/uptimesquirrel_agent/agent.py):  *)
(* the MetricBuffer, the reporter (report_metrics), the remote threshold   *)
(* configuration (fetch_remote_config, get_threshold), the rate            *)
(* collectors (DiskIOCollector, NetworkCollector) and the collection       *)
(* cycle (run, run_once, collect_metrics, check_thresholds, send_alerts).  *)
(*                                                                         *)
(* Eight specifications:                                                   *)
(*   SpecBuf     threads calling MetricBuffer.add/get_all/size, each       *)
(*               method split into the steps it takes under the lock.      *)
(*   SpecReport  any sequence of report_metrics calls on the agent.        *)
(*   SpecConfig  any sequence of fetch_remote_config and get_threshold     *)
(*               calls on the agent.                                       *)
(*   SpecRate    any sequence of collects of one rate collector.           *)
(*   SpecCycle   the main thread in run(): the initial fetch, then the     *)
(*               cycles of run_once, one action per call it makes.         *)
(*   SpecCycleFair  SpecCycle with the main thread kept running.           *)
(*   SpecOutage  the cycles of run() over a run long enough for the        *)
(*               failure counter to pass its ceiling, with few inputs.     *)
(*   SpecLock    the main thread's HTTP requests and buffer calls, each    *)
(*               request in two steps, beside other threads calling the    *)
(*               buffer.                                                   *)
(* fetch_remote_config reads and writes only the threshold fields,         *)
(* report_metrics only the failure counter and the buffer, and a rate      *)
(* collector only its own stored sample, so each is explored on its own;   *)
(* in SpecCycle the collectors' results are inputs.                        *)
(***************************************************************************)
EXTENDS Integers, Sequences, FiniteSets, TLC

VARIABLES
    maxlen,       \* MetricBuffer.buffer.maxlen (deque(maxlen=max_size))
    buffer,       \* MetricBuffer.buffer, oldest entry first
    lock,         \* MetricBuffer.lock: the thread holding it, or NoThread
    pc,           \* per thread: its position inside a MetricBuffer method
    arg,          \* per thread: the `metrics` argument of add
    local,        \* per thread: the local `metrics` list of get_all
    nextId,       \* next fresh entry handed to add
    evicted,      \* history: entries the deque dropped on overflow
    returned,     \* history: per entry, how many get_all calls returned it
    lastOp,       \* history: the buffer operation completed last
    prevOp,       \* history: the buffer operation completed before lastOp
    remote_thresholds,       \* UptimeSquirrelAgent.remote_thresholds
    threshold_version,       \* UptimeSquirrelAgent.threshold_version
    config_check_interval,   \* UptimeSquirrelAgent.config_check_interval
    consecutive_failures,    \* UptimeSquirrelAgent.consecutive_failures
    reports,      \* number of snapshots handed to report_metrics so far
    last,         \* history: the agent operation performed last
    collector,    \* which rate collector the instance below is
    last_counters,   \* DiskIOCollector / NetworkCollector .last_counters
    last_time,       \* DiskIOCollector / NetworkCollector .last_time
    now,          \* time.time()
    last_config_check,   \* UptimeSquirrelAgent.last_config_check
    step,         \* position of the main thread inside run / run_once
    metrics,      \* run_once: the snapshot collect_metrics returned
    alerts,       \* run_once: the list check_thresholds returned
    cycle,        \* history: what the current cycle has done so far
    cycles,       \* number of cycles completed
    buffered_metrics   \* report_metrics: the list get_all returned, as far
                       \* as it is still to be sent

bufVars == <<maxlen, buffer, lock, pc, arg, local, nextId, evicted, returned,
             lastOp, prevOp>>

agentVars == <<remote_thresholds, threshold_version, config_check_interval,
               consecutive_failures, reports, last>>

collectorVars == <<collector, last_counters, last_time>>

cycleData == <<now, last_config_check, metrics, alerts, cycle, cycles>>

cycleVars == <<cycleData, step, buffered_metrics>>

vars == <<bufVars, agentVars, collectorVars, cycleVars>>

----------------------------------------------------------------------------
(* Bounds *)

BufCap == 2                \* largest max_size tried for a MetricBuffer
NumThreads == 2            \* threads using one MetricBuffer
MaxAdds == BufCap + 2      \* add calls in one run (enough to overflow)

Threads == 1..NumThreads
NoThread == 0
Entries == 1..MaxAdds

NoOp == [op |-> "none", arg |-> 0, pre |-> <<>>, post |-> <<>>, ret |-> <<>>]

----------------------------------------------------------------------------
(* Program constants of UptimeSquirrelAgent *)

DefaultMaxSize == 100            \* MetricBuffer.__init__(max_size=100)
MaxConsecutiveFailures == 5      \* self.max_consecutive_failures
DefaultCheckInterval == 300      \* self.config_check_interval, and the
                                 \* fallback of config.get('check_interval')

Interval == 60                   \* self.interval, the fallback of load_config

\* time.time() when run() starts: long after the epoch, so that the first
\* cycle finds its config check due.
StartTime == 2 * DefaultCheckInterval

\* No snapshot yet.
NoMetrics == [kind |-> "null"]

(* Bounds of the agent model *)

MaxVersion == 2            \* largest threshold_version a server sends
MaxReports == 7            \* report_metrics calls in one run

\* Metric names get_threshold is asked for.
MetricNames == {"cpu", "memory", "disk"}

\* [monitoring] cpu_threshold / memory_threshold / disk_threshold as
\* load_config sets them.
LocalThresholds == [cpu |-> 80, memory |-> 85, disk |-> 90]

\* A JSON object of thresholds: a function from some metric names to limits.
Dict(f) == [kind |-> "dict", map |-> f]
EmptyMap == [k \in {} |-> 0]
EmptyDict == Dict(EmptyMap)
\* The JSON value null where an object of thresholds was expected.
NullValue == [kind |-> "null", map |-> EmptyMap]
\* The key is missing from the response.
AbsentField == [kind |-> "absent", map |-> EmptyMap]

\* The threshold objects a server sends.
ThresholdDicts ==
    { EmptyDict,
      Dict([cpu |-> 50]),
      Dict([cpu |-> 99]),
      Dict([memory |-> 70]),
      Dict([cpu |-> 50, memory |-> 70]),
      Dict([swap |-> 60]) }

ThresholdFields == ThresholdDicts \cup {NullValue, AbsentField}

\* 'threshold_version' of a response: an integer, missing, or a string.
VersionFields ==
    {[kind |-> "int", v |-> n] : n \in 0..MaxVersion}
      \cup {[kind |-> "absent", v |-> 0], [kind |-> "str", v |-> 0]}

\* 'check_interval' of a response: an integer or missing.
IntervalFields ==
    {[kind |-> "int", v |-> 60], [kind |-> "absent", v |-> 0]}

NoFields == [version |-> [kind |-> "absent", v |-> 0],
             thresholds |-> AbsentField,
             check_interval |-> [kind |-> "absent", v |-> 0]]

\* What session.get(".../agent/config") can produce: a RequestException
\* (status 0), a non-200 status, a 200 whose body is not JSON or not an
\* object, or a 200 with a JSON object.
ConfigResponses ==
    {[status |-> st, body |-> "none", fields |-> NoFields] : st \in {0, 404, 500}}
      \cup {[status |-> 200, body |-> b, fields |-> NoFields] :
              b \in {"not_json", "not_object"}}
      \cup {[status |-> 200, body |-> "object",
             fields |-> [version |-> v, thresholds |-> t, check_interval |-> c]] :
              v \in VersionFields, t \in ThresholdFields, c \in IntervalFields}

----------------------------------------------------------------------------
(* fetch_remote_config and get_threshold *)

AgentConfig(rt, tv, cci) ==
    [remote_thresholds |-> rt, threshold_version |-> tv,
     config_check_interval |-> cci]

\* config.get('threshold_version', 0)
NewVersion(fields) ==
    IF fields.version.kind = "absent" THEN 0 ELSE fields.version.v

\* config.get('thresholds', {})
NewThresholds(fields) ==
    IF fields.thresholds.kind = "absent" THEN EmptyDict ELSE fields.thresholds

\* config.get('check_interval', 300)
NewCheckInterval(fields) ==
    IF fields.check_interval.kind = "absent" THEN DefaultCheckInterval
    ELSE fields.check_interval.v

\* Mutant: thresholds taken whenever the server's version differs.
FetchRemoteConfigOnChange(resp, rt, tv, cci) ==
    IF resp.status = 200 /\ resp.body = "object" /\ resp.fields.version.kind # "str"
    THEN IF NewVersion(resp.fields) # tv
         THEN AgentConfig(NewThresholds(resp.fields), NewVersion(resp.fields),
                          NewCheckInterval(resp.fields))
         ELSE AgentConfig(rt, tv, NewCheckInterval(resp.fields))
    ELSE AgentConfig(rt, tv, cci)

\* Mutant: thresholds taken also when the server's version is the held one.
FetchRemoteConfigOnEqual(resp, rt, tv, cci) ==
    IF resp.status = 200 /\ resp.body = "object" /\ resp.fields.version.kind # "str"
    THEN IF NewVersion(resp.fields) >= tv
         THEN AgentConfig(NewThresholds(resp.fields), NewVersion(resp.fields),
                          NewCheckInterval(resp.fields))
         ELSE AgentConfig(rt, tv, NewCheckInterval(resp.fields))
    ELSE AgentConfig(rt, tv, cci)

\* Mutant: the fetched thresholds merged into the held ones (dict.update).
FetchRemoteConfigMerge(resp, rt, tv, cci) ==
    IF resp.status = 200 /\ resp.body = "object" /\ resp.fields.version.kind # "str"
    THEN IF NewVersion(resp.fields) > tv
         THEN LET new == NewThresholds(resp.fields)
                  merged == [k \in DOMAIN rt.map \cup DOMAIN new.map |->
                               IF k \in DOMAIN new.map THEN new.map[k]
                               ELSE rt.map[k]]
              IN  AgentConfig(IF new.kind = "dict" THEN Dict(merged) ELSE new,
                              NewVersion(resp.fields),
                              NewCheckInterval(resp.fields))
         ELSE AgentConfig(rt, tv, NewCheckInterval(resp.fields))
    ELSE AgentConfig(rt, tv, cci)

\* Mutant: the check interval is taken only together with newer thresholds.
FetchRemoteConfigIntervalIfNewer(resp, rt, tv, cci) ==
    IF resp.status = 200 /\ resp.body = "object" /\ resp.fields.version.kind # "str"
    THEN IF NewVersion(resp.fields) > tv
         THEN IF NewThresholds(resp.fields).kind = "null"
              THEN AgentConfig(NewThresholds(resp.fields),
                               NewVersion(resp.fields), cci)
              ELSE AgentConfig(NewThresholds(resp.fields),
                               NewVersion(resp.fields),
                               NewCheckInterval(resp.fields))
         ELSE AgentConfig(rt, tv, cci)
    ELSE AgentConfig(rt, tv, cci)

\* fetch_remote_config: the agent's configuration after the response resp,
\* from remote_thresholds rt, threshold_version tv, config_check_interval cci.
\* Every exception is caught and logged; what was assigned before it stays.
FetchRemoteConfig(resp, rt, tv, cci) ==
    IF resp.status # 200
    THEN \* RequestException, 404, or another status: logged
         AgentConfig(rt, tv, cci)
    ELSE IF resp.body # "object"
    THEN \* response.json() or config.get raises
         AgentConfig(rt, tv, cci)
    ELSE IF resp.fields.version.kind = "str"
    THEN \* new_version > self.threshold_version raises TypeError
         AgentConfig(rt, tv, cci)
    ELSE IF NewVersion(resp.fields) > tv
    THEN IF NewThresholds(resp.fields).kind = "null"
         THEN \* both assigned, then self.remote_thresholds.keys() raises
              AgentConfig(NewThresholds(resp.fields), NewVersion(resp.fields), cci)
         ELSE AgentConfig(NewThresholds(resp.fields), NewVersion(resp.fields),
                          NewCheckInterval(resp.fields))
    ELSE AgentConfig(rt, tv, NewCheckInterval(resp.fields))

\* fetch_remote_config ends in one of its failure branches: the request
\* raised (status 0), the status is neither 200 nor 404, or an exception
\* was raised while the 200 response was processed.
FetchRemoteConfigFails(resp, tv) ==
    IF resp.status # 200 THEN resp.status # 404
    ELSE \/ resp.body # "object"
         \/ resp.fields.version.kind = "str"
         \/ /\ NewVersion(resp.fields) > tv
            /\ NewThresholds(resp.fields).kind = "null"

\* get_threshold(metric_type, default) when remote_thresholds is an object:
\* the remote value if the name is a key, else the local configuration, else
\* the default.
GetThreshold(rt, metric_type, default) ==
    IF metric_type \in DOMAIN rt.map THEN rt.map[metric_type]
    ELSE IF metric_type \in DOMAIN LocalThresholds THEN LocalThresholds[metric_type]
    ELSE default

\* get_threshold raises instead of returning: `metric_type in
\* self.remote_thresholds` is a TypeError when remote_thresholds is None.
GetThresholdRaises(rt) == rt.kind # "dict"

\* The names get_threshold is called with: the three of collect_metrics and
\* check_thresholds, and one that load_config gives no local threshold.
ThresholdNames == MetricNames \cup {"swap"}

\* The defaults get_threshold is called with (80.0, 85.0, 90.0).
ThresholdDefaults == {80, 85, 90}

----------------------------------------------------------------------------
(* collections.deque with maxlen, as MetricBuffer uses it *)

\* Mutant: append on a plain deque, the maxlen forgotten.
DequeAppendUnbounded(buf, m, cap) == Append(buf, m)

\* deque.append on a deque of maxlen cap: a full deque drops its leftmost
\* item to make room; a deque of maxlen 0 stays empty.
DequeAppend(buf, m, cap) ==
    IF cap = 0 THEN <<>>
    ELSE IF Len(buf) >= cap THEN Tail(buf) \o <<m>>
    ELSE Append(buf, m)

\* The items deque.append drops from buf when m is appended.
DequeDropped(buf, m, cap) ==
    IF cap = 0 THEN {m}
    ELSE IF Len(buf) >= cap THEN {Head(buf)}
    ELSE {}

\* list(self.buffer)
DequeList(buf) == buf

\* Mutant: get_all that forgets to clear.
DequeClearNothing(buf) == buf

\* self.buffer.clear()
DequeClear(buf) == <<>>

SeqToSet(s) == {s[i] : i \in 1..Len(s)}

----------------------------------------------------------------------------
(* threading.Lock *)

\* Mutant: a lock that excludes nobody.
LockAcquireNoWait(t) == lock' = t

\* Mutant: leaving the with block does not give the lock back.
LockReleaseNever(t) == lock' = lock

\* `with self.lock:` entry: blocks until the lock is free, then takes it.
LockAcquire(t) == lock = NoThread /\ lock' = t

\* `with self.lock:` exit.
LockRelease(t) == lock' = NoThread

----------------------------------------------------------------------------
(* report_metrics *)

\* One session.post of a snapshot to /agent/metrics: the snapshot, whether
\* it is the current one ("fresh") or a drained one ("buffered"), and
\* whether the call returned without raising.
Post(m, kind, ok) == [m |-> m, kind |-> kind, ok |-> ok]

ReportResult(cf, buf, posts) ==
    [consecutive_failures |-> cf, buffer |-> buf, posts |-> posts]

\* The POSTs of the redelivery loop over the drained list.
Redeliveries(drained, redeliver) ==
    [i \in 1..Len(drained) |-> Post(drained[i], "buffered", redeliver[i])]

\* Mutant: the buffered entries are read but the buffer is not drained.
ReportSuccessNoDrain(m, buf, redeliver) ==
    ReportResult(0, buf,
                 <<Post(m, "fresh", TRUE)>> \o Redeliveries(buf, redeliver))

\* Mutant: the redelivery loop without its own try/except: the first failed
\* redelivery ends the loop and reaches the handler of the current snapshot.
ReportSuccessUnguarded(m, buf, redeliver) ==
    LET failing == {i \in 1..Len(buf) : ~redeliver[i]}
        first == CHOOSE i \in failing : \A j \in failing : i <= j
    IN  IF failing = {}
        THEN ReportResult(0, <<>>,
                 <<Post(m, "fresh", TRUE)>> \o Redeliveries(buf, redeliver))
        ELSE ReportResult(1, <<m>>,
                 <<Post(m, "fresh", TRUE)>>
                   \o SubSeq(Redeliveries(buf, redeliver), 1, first))

\* Mutant: a drained snapshot whose redelivery failed goes back into the
\* buffer.
ReportSuccessRebuffer(m, buf, redeliver) ==
    ReportResult(0, SelectSeq(buf, LAMBDA e :
                        \E i \in 1..Len(buf) : buf[i] = e /\ ~redeliver[i]),
                 <<Post(m, "fresh", TRUE)>> \o Redeliveries(buf, redeliver))

\* report_metrics after the POST of m and raise_for_status succeeded: the
\* counter is reset; if the buffer holds anything it is drained and every
\* drained entry is POSTed once, an exception of such a POST being logged.
\* redeliver[i] says whether the i-th of these POSTs returns.
ReportSuccess(m, buf, redeliver) ==
    IF Len(buf) > 0
    THEN ReportResult(0, DequeClear(buf),
             <<Post(m, "fresh", TRUE)>>
               \o Redeliveries(DequeList(buf), redeliver))
    ELSE ReportResult(0, buf, <<Post(m, "fresh", TRUE)>>)

\* Mutant: past the ceiling the oldest buffered snapshot makes room for the
\* failed one, so the buffer keeps the latest snapshots of an outage.
ReportFailureKeepLatest(m, buf, cf, cap) ==
    IF cf + 1 < MaxConsecutiveFailures
    THEN ReportResult(cf + 1, DequeAppend(buf, m, cap), <<Post(m, "fresh", FALSE)>>)
    ELSE ReportResult(cf + 1,
                      IF buf = <<>> THEN <<m>> ELSE Append(Tail(buf), m),
                      <<Post(m, "fresh", FALSE)>>)

\* Mutant: the ceiling one lower than max_consecutive_failures.
ReportFailureLowCeiling(m, buf, cf, cap) ==
    IF cf + 1 < MaxConsecutiveFailures - 1
    THEN ReportResult(cf + 1, DequeAppend(buf, m, cap), <<Post(m, "fresh", FALSE)>>)
    ELSE ReportResult(cf + 1, buf, <<Post(m, "fresh", FALSE)>>)

\* Mutant: the ceiling compared with <=.
ReportFailureOffByOne(m, buf, cf, cap) ==
    IF cf + 1 <= MaxConsecutiveFailures
    THEN ReportResult(cf + 1, DequeAppend(buf, m, cap), <<Post(m, "fresh", FALSE)>>)
    ELSE ReportResult(cf + 1, buf, <<Post(m, "fresh", FALSE)>>)

\* Mutant: every failed snapshot is buffered, whatever the counter.
ReportFailureNoCeiling(m, buf, cf, cap) ==
    ReportResult(cf + 1, DequeAppend(buf, m, cap), <<Post(m, "fresh", FALSE)>>)

\* report_metrics after the POST of m or raise_for_status raised a
\* RequestException: the counter goes up by one, and m is added to the
\* buffer while the counter is below max_consecutive_failures.
ReportFailure(m, buf, cf, cap) ==
    IF cf + 1 < MaxConsecutiveFailures
    THEN ReportResult(cf + 1, DequeAppend(buf, m, cap), <<Post(m, "fresh", FALSE)>>)
    ELSE ReportResult(cf + 1, buf, <<Post(m, "fresh", FALSE)>>)

\* How the delivery of the current snapshot ends: the response is accepted,
\* session.post raises, or raise_for_status raises.
FirstOutcomes == {"ok", "post_raises", "status_raises"}

\* report_metrics(m)
ReportMetrics(m, first, redeliver, buf, cf, cap) ==
    IF first = "ok" THEN ReportSuccess(m, buf, redeliver)
    ELSE ReportFailure(m, buf, cf, cap)

----------------------------------------------------------------------------
(* DiskIOCollector and NetworkCollector *)

MaxTime == 3               \* largest value time.time() returns to a collector

Times == 1..MaxTime

\* self.last_time = None (a time.time() of 0.0 is as falsy as None)
NoTime == 0

RateCollectors == {"disk_io", "network"}

\* psutil.disk_io_counters(perdisk=True): per disk an sdiskio tuple
Disks == {"sda", "sdb"}

DiskReadings ==
    { [read_bytes |-> 1000, write_bytes |-> 0, read_count |-> 10, write_count |-> 0],
      [read_bytes |-> 3000, write_bytes |-> 500, read_count |-> 11, write_count |-> 3],
      [read_bytes |-> 3001, write_bytes |-> 501, read_count |-> 15, write_count |-> 4] }

DiskSamples == UNION {[S -> DiskReadings] : S \in SUBSET Disks}

\* psutil.net_io_counters(pernic=True): per interface an snetio tuple
Interfaces == {"eth0", "eth1", "lo"}

NetReadings ==
    { [bytes_sent |-> 1000, bytes_recv |-> 2000, packets_sent |-> 10,
       packets_recv |-> 20, errin |-> 0, errout |-> 0, dropin |-> 0, dropout |-> 0],
      [bytes_sent |-> 3001, bytes_recv |-> 2000, packets_sent |-> 15,
       packets_recv |-> 21, errin |-> 1, errout |-> 0, dropin |-> 0, dropout |-> 2] }

NetSamples == UNION {[S -> NetReadings] : S \in SUBSET Interfaces}

\* interface.startswith('lo')
IsLoopback(interface) == interface \in {"lo"}

\* bool(x) of a dict or None
IsTruthy(d) == d.kind = "dict" /\ DOMAIN d.map # {}

Abs(x) == IF x < 0 THEN -x ELSE x

SignOf(x, y) == IF (x < 0) = (y < 0) THEN 1 ELSE -1

\* Mutant: the quotient rounded to the nearest integer, halves upwards.
IntOfQuotientRounded(x, y) ==
    SignOf(x, y) * ((2 * Abs(x) + Abs(y)) \div (2 * Abs(y)))

\* int(x / y) for integers x and y # 0: the quotient truncated toward zero
IntOfQuotient(x, y) == SignOf(x, y) * (Abs(x) \div Abs(y))

\* round(x / y, 2) for integers x and y # 0, in hundredths: the nearest
\* hundredth, a quotient halfway between two going to the even one.
RoundOfQuotient(x, y) ==
    LET n == 100 * Abs(x)
        d == Abs(y)
        q == n \div d
        r == n % d
    IN  SignOf(x, y) * (IF 2 * r > d \/ (2 * r = d /\ q % 2 = 1) THEN q + 1 ELSE q)

\* What a collect does: whether it raised, the dict it returned, and the
\* fields of the collector afterwards.
CollectResult(raised, data, lc, lt) ==
    [raised |-> raised, data |-> data, last_counters |-> lc, last_time |-> lt]

\* io_data[disk] of the rate branch; read_iops and write_iops in hundredths
DiskIORates(current, previous, time_delta) ==
    [read_bytes_per_sec |->
         IntOfQuotient(current.read_bytes - previous.read_bytes, time_delta),
     write_bytes_per_sec |->
         IntOfQuotient(current.write_bytes - previous.write_bytes, time_delta),
     read_iops |->
         RoundOfQuotient(current.read_count - previous.read_count, time_delta),
     write_iops |->
         RoundOfQuotient(current.write_count - previous.write_count, time_delta),
     read_count |-> current.read_count,
     write_count |-> current.write_count,
     read_bytes |-> current.read_bytes,
     write_bytes |-> current.write_bytes]

\* io_data[disk] of the first run
DiskIOFirst(current) ==
    [read_bytes_per_sec |-> 0, write_bytes_per_sec |-> 0,
     read_iops |-> 0, write_iops |-> 0,
     read_count |-> current.read_count,
     write_count |-> current.write_count,
     read_bytes |-> current.read_bytes,
     write_bytes |-> current.write_bytes]

\* Mutant: the first run returns its data without storing the sample.
DiskIOCollectForgetful(lc, lt, current_time, counters) ==
    CollectResult(FALSE, [disk \in DOMAIN counters |-> DiskIOFirst(counters[disk])],
                  lc, lt)

\* DiskIOCollector.collect, time.time() returning current_time and psutil
\* returning counters. The division by a zero time_delta raises before
\* anything is stored.
DiskIOCollect(lc, lt, current_time, counters) ==
    IF DOMAIN counters = {}
    THEN CollectResult(FALSE, EmptyMap, lc, lt)
    ELSE IF IsTruthy(lc) /\ lt # NoTime
    THEN LET time_delta == current_time - lt
             known == DOMAIN counters \cap DOMAIN lc.map
         IN  IF time_delta = 0 /\ known # {}
             THEN CollectResult(TRUE, EmptyMap, lc, lt)
             ELSE CollectResult(FALSE,
                      [disk \in known |->
                          DiskIORates(counters[disk], lc.map[disk], time_delta)],
                      Dict(counters), current_time)
    ELSE CollectResult(FALSE,
             [disk \in DOMAIN counters |-> DiskIOFirst(counters[disk])],
             Dict(counters), current_time)

\* network_data[interface] of the rate branch; packets_*_per_sec in
\* hundredths
NetworkRates(current, previous, time_delta) ==
    [bytes_sent |-> current.bytes_sent,
     bytes_recv |-> current.bytes_recv,
     packets_sent |-> current.packets_sent,
     packets_recv |-> current.packets_recv,
     bytes_sent_per_sec |->
         IntOfQuotient(current.bytes_sent - previous.bytes_sent, time_delta),
     bytes_recv_per_sec |->
         IntOfQuotient(current.bytes_recv - previous.bytes_recv, time_delta),
     packets_sent_per_sec |->
         RoundOfQuotient(current.packets_sent - previous.packets_sent, time_delta),
     packets_recv_per_sec |->
         RoundOfQuotient(current.packets_recv - previous.packets_recv, time_delta),
     errin |-> current.errin,
     errout |-> current.errout,
     dropin |-> current.dropin,
     dropout |-> current.dropout]

\* network_data[interface] of the first run
NetworkFirst(current) ==
    [bytes_sent |-> current.bytes_sent,
     bytes_recv |-> current.bytes_recv,
     packets_sent |-> current.packets_sent,
     packets_recv |-> current.packets_recv,
     bytes_sent_per_sec |-> 0, bytes_recv_per_sec |-> 0,
     packets_sent_per_sec |-> 0, packets_recv_per_sec |-> 0,
     errin |-> current.errin,
     errout |-> current.errout,
     dropin |-> current.dropin,
     dropout |-> current.dropout]

\* NetworkCollector.collect, time.time() returning current_time and psutil
\* returning counters
NetworkCollect(lc, lt, current_time, counters) ==
    LET reported == {i \in DOMAIN counters : ~IsLoopback(i)}
    IN  IF IsTruthy(lc) /\ lt # NoTime
        THEN LET time_delta == current_time - lt
                 known == reported \cap DOMAIN lc.map
             IN  IF time_delta = 0 /\ known # {}
                 THEN CollectResult(TRUE, EmptyMap, lc, lt)
                 ELSE CollectResult(FALSE,
                          [i \in known |->
                              NetworkRates(counters[i], lc.map[i], time_delta)],
                          Dict(counters), current_time)
        ELSE CollectResult(FALSE,
                 [i \in reported |-> NetworkFirst(counters[i])],
                 Dict(counters), current_time)

----------------------------------------------------------------------------
(* The collection cycle: collect_metrics, check_thresholds, send_alerts *)

MaxCycles == 2             \* cycles of the main loop in one run

\* self.collectors, in the order collect_metrics goes through them
CollectorNames ==
    <<"cpu", "memory", "disk", "disk_io", "network", "services", "sensors",
      "processes">>

Collectors == {CollectorNames[i] : i \in 1..Len(CollectorNames)}

NoCollector == "none"

Str(v) == [kind |-> "str", v |-> v]

\* {'error': str(e)}
ErrorMarker == Dict([error |-> Str("collect failed")])

\* What a collector other than cpu, memory, disk and services returned.
OtherData == Dict([sample |-> Str("data")])

\* The mounts DiskCollector reports and the services ServiceCollector is
\* configured with.
Mounts == {"/", "/data"}
Services == {"nginx", "sshd"}

\* What the collectors return when none raises: cpu usage_percent, memory
\* percent, the percent of the two mounts and whether each of the two
\* services is active.
Reading(cpu, memory, root, data, nginx, sshd) ==
    [cpu |-> Dict([usage_percent |-> cpu]),
     memory |-> Dict([percent |-> memory]),
     disk |-> Dict([mount \in Mounts |->
                      Dict([percent |-> IF mount = "/" THEN root ELSE data])]),
     disk_io |-> OtherData,
     network |-> OtherData,
     services |-> Dict([service \in Services |->
                          Dict([active |-> IF service = "nginx" THEN nginx
                                           ELSE sshd])]),
     sensors |-> OtherData,
     processes |-> OtherData]

\* Readings below, at and above the thresholds 80 / 85 / 90 of the local
\* configuration and the fixed critical levels 90 / 95 / 95.
Readings ==
    { Reading(50, 50, 50, 50, TRUE, TRUE),
      Reading(79, 85, 90, 50, TRUE, TRUE),
      Reading(80, 90, 92, 90, FALSE, TRUE),
      Reading(82, 94, 50, 94, TRUE, FALSE),
      Reading(90, 50, 95, 92, TRUE, TRUE),
      Reading(50, 95, 50, 50, FALSE, FALSE),
      Reading(95, 96, 95, 50, FALSE, TRUE) }

\* What a cycle's collectors do: all return, with any of the readings; or
\* one of them raises, the others returning a quiet or an alarming reading.
CollectOutcomes ==
    (Readings \X {NoCollector})
      \cup ({Reading(50, 50, 50, 50, TRUE, TRUE),
              Reading(95, 96, 95, 50, FALSE, TRUE)} \X Collectors)

\* The order in which a dict of the model is iterated.
KeyOrder == <<"/", "/data", "nginx", "sshd", "error">>

Keys(d) == SelectSeq(KeyOrder, LAMBDA k : k \in DOMAIN d.map)

\* Mutant: the snapshot records the thresholds of the local configuration.
ActiveThresholdsLocal(rt, tv) ==
    [cpu |-> LocalThresholds["cpu"],
     memory |-> LocalThresholds["memory"],
     disk |-> LocalThresholds["disk"],
     version |-> tv,
     source |-> IF IsTruthy(rt) THEN "remote" ELSE "local"]

\* Mutant: the source says whether one of the three thresholds is remote.
ActiveThresholdsPerKey(rt, tv) ==
    [cpu |-> GetThreshold(rt, "cpu", 80),
     memory |-> GetThreshold(rt, "memory", 85),
     disk |-> GetThreshold(rt, "disk", 90),
     version |-> tv,
     source |-> IF DOMAIN rt.map \cap MetricNames # {} THEN "remote" ELSE "local"]

\* metrics['active_thresholds']
ActiveThresholds(rt, tv) ==
    [cpu |-> GetThreshold(rt, "cpu", 80),
     memory |-> GetThreshold(rt, "memory", 85),
     disk |-> GetThreshold(rt, "disk", 90),
     version |-> tv,
     source |-> IF IsTruthy(rt) THEN "remote" ELSE "local"]

\* collect_metrics raises when its first get_threshold does.
CollectMetricsRaises(rt) == GetThresholdRaises(rt)

\* metrics[name] = collector.collect(), or the marker when it raised
Domain(reading, failing, name) ==
    IF failing = name THEN ErrorMarker ELSE reading[name]

\* collect_metrics() at time.time() = time, the collectors returning
\* reading, but the collector `failing` raising
CollectMetrics(rt, tv, time, reading, failing) ==
    [kind |-> "dict",
     timestamp |-> time,
     active_thresholds |-> ActiveThresholds(rt, tv),
     cpu |-> Domain(reading, failing, "cpu"),
     memory |-> Domain(reading, failing, "memory"),
     disk |-> Domain(reading, failing, "disk"),
     disk_io |-> Domain(reading, failing, "disk_io"),
     network |-> Domain(reading, failing, "network"),
     services |-> Domain(reading, failing, "services"),
     sensors |-> Domain(reading, failing, "sensors"),
     processes |-> Domain(reading, failing, "processes")]

\* d.get(field, 0)
UsageOf(d, field) == IF field \in DOMAIN d.map THEN d.map[field] ELSE 0

\* status.get('active', False)
Active(status) ==
    IF "active" \in DOMAIN status.map THEN status.map["active"] ELSE FALSE

\* Every value of the dict has a .get, that is, is itself a dict.
DictValued(d) == \A k \in DOMAIN d.map : d.map[k].kind = "dict"

Alert(type, severity, subject, usage, threshold) ==
    [type |-> type, severity |-> severity, subject |-> subject,
     usage |-> usage, threshold |-> threshold]

Severity(usage, critical) == IF usage < critical THEN "warning" ELSE "critical"

CpuAlerts(m, rt) ==
    LET cpu_threshold == GetThreshold(rt, "cpu", 80)
        cpu_usage == UsageOf(m.cpu, "usage_percent")
    IN  IF cpu_usage > cpu_threshold
        THEN <<Alert("cpu_high", Severity(cpu_usage, 90), "cpu",
                     cpu_usage, cpu_threshold)>>
        ELSE <<>>

MemoryAlerts(m, rt) ==
    LET memory_threshold == GetThreshold(rt, "memory", 85)
        memory_usage == UsageOf(m.memory, "percent")
    IN  IF memory_usage > memory_threshold
        THEN <<Alert("memory_high", Severity(memory_usage, 95), "memory",
                     memory_usage, memory_threshold)>>
        ELSE <<>>

DiskAlerts(m, rt) ==
    LET disk_threshold == GetThreshold(rt, "disk", 90)
        over == SelectSeq(Keys(m.disk),
                    LAMBDA mount : UsageOf(m.disk.map[mount], "percent") > disk_threshold)
    IN  [i \in 1..Len(over) |->
            Alert("disk_high",
                  Severity(UsageOf(m.disk.map[over[i]], "percent"), 95),
                  over[i], UsageOf(m.disk.map[over[i]], "percent"), disk_threshold)]

ServiceAlerts(m) ==
    LET down == SelectSeq(Keys(m.services),
                    LAMBDA service : ~Active(m.services.map[service]))
    IN  [i \in 1..Len(down) |-> Alert("service_down", "critical", down[i], 0, 0)]

\* check_thresholds raises: in a get_threshold, or at disk_data.get /
\* status.get when a value of metrics['disk'] / metrics['services'] is not
\* a dict, as the message of an error marker is.
CheckThresholdsRaises(m, rt) ==
    \/ GetThresholdRaises(rt)
    \/ ~DictValued(m.disk)
    \/ ~DictValued(m.services)

\* check_thresholds(metrics) when it returns; no snmp domain is collected
CheckThresholds(m, rt) ==
    CpuAlerts(m, rt) \o MemoryAlerts(m, rt) \o DiskAlerts(m, rt) \o ServiceAlerts(m)

\* retry_strategy of __init__
RetryStrategy ==
    [total |-> 3, backoff_factor |-> 1,
     status_forcelist |-> {429, 500, 502, 503, 504}]

\* The adapter mounted on the session for 'http://' and for 'https://':
\* every request of the session goes through it.
SessionAdapter == [max_retries |-> RetryStrategy]

\* One self.session.post(api_url + endpoint, json=payload, timeout=30)
\* and whether it, raise_for_status included where called, returned.
SessionPost(endpoint, payload, ok) ==
    [endpoint |-> endpoint, payload |-> payload, ok |-> ok,
     adapter |-> SessionAdapter]

\* The POSTs of report_metrics as requests of the session.
MetricPosts(posts) ==
    [i \in 1..Len(posts) |-> SessionPost("/agent/metrics", posts[i].m, posts[i].ok)]

\* Mutant: a RequestException ends the loop over the alerts.
SendAlertsStopAtFailure(alert_list, outcomes) ==
    LET failing == {i \in 1..Len(alert_list) : ~outcomes[i]}
        upto == IF failing = {} THEN Len(alert_list)
                ELSE CHOOSE i \in failing : \A j \in failing : i <= j
    IN  [i \in 1..upto |-> SessionPost("/agent/alerts", alert_list[i], outcomes[i])]

\* send_alerts(alerts): one session.post per alert, a RequestException of
\* it being logged; outcomes[i] says whether the i-th returns.
SendAlerts(alert_list, outcomes) ==
    [i \in 1..Len(alert_list) |->
        SessionPost("/agent/alerts", alert_list[i], outcomes[i])]

\* No config fetch was made.
NoResponse == [status |-> -1, body |-> "none", fields |-> NoFields]

\* The history of a cycle: its number, whether the config fetch ran, what
\* the collectors did, which steps ran, where an exception reached
\* run_once, the requests made, and the reporter's state after
\* report_metrics; then the clock at its start, the time since the last
\* config check and the check interval it was compared with, the server's
\* answer to the fetch and whether the fetch failed, the agent's state
\* when check_thresholds was called, the calls run_once made in their
\* order, what run() measured and slept after it, and the buffer, the
\* failure counter and last_config_check when run_once was entered.
NewCycle(n, fetched) ==
    [n |-> n, fetched |-> fetched,
     reading |-> Reading(0, 0, 0, 0, TRUE, TRUE),
     failing |-> NoCollector, collected |-> FALSE, evaluated |-> FALSE,
     reported |-> FALSE, sent |-> FALSE, raised |-> "nowhere",
     metric_posts |-> <<>>, alert_posts |-> <<>>,
     failures |-> 0, buffered |-> <<>>,
     start_time |-> 0, since_check |-> 0, check_interval |-> 0,
     resp |-> NoResponse, fetch_failed |-> FALSE,
     before_check |-> <<>>, calls |-> <<>>,
     slept |-> FALSE, elapsed |-> 0, sleep_time |-> 0,
     at_start |-> <<>>]

NoCycle == NewCycle(0, FALSE)

----------------------------------------------------------------------------
(* The agent's operations as actions *)

threadVars == <<lock, pc, arg, local, nextId, evicted, returned, lastOp, prevOp>>

\* self.fetch_remote_config(), the server answering resp
FetchRemoteConfigCall(resp) ==
    LET c == FetchRemoteConfig(resp, remote_thresholds, threshold_version,
                               config_check_interval)
    IN  /\ remote_thresholds' = c.remote_thresholds
        /\ threshold_version' = c.threshold_version
        /\ config_check_interval' = c.config_check_interval
        /\ last' = [op |-> "fetch", resp |-> resp,
                    pre |-> AgentConfig(remote_thresholds, threshold_version,
                                        config_check_interval)]
        /\ UNCHANGED <<maxlen, buffer, consecutive_failures, reports>>
        /\ UNCHANGED threadVars
        /\ UNCHANGED <<collectorVars, cycleVars>>

\* self.get_threshold(metric_type, default)
GetThresholdCall(metric_type, default) ==
    /\ last' = [op |-> "get_threshold", metric_type |-> metric_type,
                default |-> default,
                raised |-> GetThresholdRaises(remote_thresholds),
                value |-> IF GetThresholdRaises(remote_thresholds) THEN 0
                          ELSE GetThreshold(remote_thresholds, metric_type, default)]
    /\ UNCHANGED <<maxlen, buffer, consecutive_failures, reports,
                   remote_thresholds, threshold_version, config_check_interval>>
    /\ UNCHANGED threadVars
    /\ UNCHANGED <<collectorVars, cycleVars>>

\* History of the report_metrics calls so far: the snapshots of the failed
\* calls since the last accepted delivery, oldest first, and every POST to
\* /agent/metrics the reporter has made, in the order it made them.
Outage == IF last.op = "report" THEN last.outage ELSE <<>>
PostLog == IF last.op = "report" THEN last.log ELSE <<>>

\* self.report_metrics(metrics) for the next snapshot
ReportMetricsCall(first, redeliver) ==
    /\ reports < MaxReports
    /\ LET m == reports + 1
           r == ReportMetrics(m, first, redeliver, buffer,
                              consecutive_failures, maxlen)
       IN  /\ consecutive_failures' = r.consecutive_failures
           /\ buffer' = r.buffer
           /\ reports' = m
           /\ last' = [op |-> "report", m |-> m, first |-> first,
                       pre_failures |-> consecutive_failures,
                       pre_buffer |-> buffer, posts |-> r.posts,
                       pre_outage |-> Outage,
                       outage |-> IF first = "ok" THEN <<>>
                                  ELSE Append(Outage, m),
                       log |-> PostLog \o r.posts]
    /\ UNCHANGED <<maxlen, remote_thresholds, threshold_version,
                   config_check_interval>>
    /\ UNCHANGED threadVars
    /\ UNCHANGED <<collectorVars, cycleVars>>

\* UptimeSquirrelAgent.__init__: the fields the operations use
InitAgentState ==
    /\ remote_thresholds = EmptyDict
    /\ threshold_version = 0
    /\ config_check_interval = DefaultCheckInterval
    /\ consecutive_failures = 0
    /\ reports = 0
    /\ last = [op |-> "none"]

InitThreads ==
    /\ lock = NoThread
    /\ pc = [t \in Threads |-> "idle"]
    /\ arg = [t \in Threads |-> 0]
    /\ local = [t \in Threads |-> <<>>]
    /\ nextId = 1
    /\ evicted = {}
    /\ returned = [e \in Entries |-> 0]
    /\ lastOp = NoOp
    /\ prevOp = NoOp

\* DiskIOCollector.__init__ / NetworkCollector.__init__
InitCollector ==
    /\ last_counters = NullValue
    /\ last_time = NoTime

\* The main thread before run() is called
InitCycle ==
    /\ now = StartTime
    /\ last_config_check = 0
    /\ step = "start"
    /\ metrics = NoMetrics
    /\ alerts = <<>>
    /\ cycle = NoCycle
    /\ cycles = 0
    /\ buffered_metrics = <<>>

\* The agent after construction: self.metric_buffer = MetricBuffer()
Init ==
    /\ InitAgentState
    /\ maxlen = DefaultMaxSize
    /\ buffer = <<>>
    /\ InitThreads
    /\ collector = "disk_io"
    /\ InitCollector
    /\ InitCycle

\* Any sequence of config fetches, the server answering anything, and of
\* threshold look-ups.
NextConfig ==
    \/ \E resp \in ConfigResponses : FetchRemoteConfigCall(resp)
    \/ \E name \in ThresholdNames, default \in ThresholdDefaults :
          GetThresholdCall(name, default)

SpecConfig == Init /\ [][NextConfig]_vars

\* Any sequence of report_metrics calls, each POST succeeding or failing.
NextReport ==
    \E first \in FirstOutcomes :
        \E redeliver \in [1..Len(buffer) -> BOOLEAN] :
            ReportMetricsCall(first, redeliver)

SpecReport == Init /\ [][NextReport]_vars

----------------------------------------------------------------------------
(* run and run_once, step by step *)

\* What the server answers to the config fetches of a run.
CycleResponses ==
    { [status |-> 0, body |-> "none", fields |-> NoFields],
      [status |-> 200, body |-> "object",
       fields |-> [version |-> [kind |-> "int", v |-> 1],
                   thresholds |-> Dict([cpu |-> 50]),
                   check_interval |-> AbsentField]],
      [status |-> 200, body |-> "object",
       fields |-> [version |-> [kind |-> "int", v |-> 2],
                   thresholds |-> Dict([swap |-> 60]),
                   check_interval |-> [kind |-> "int", v |-> 60]]],
      [status |-> 200, body |-> "object",
       fields |-> [version |-> [kind |-> "int", v |-> 1],
                   thresholds |-> NullValue,
                   check_interval |-> AbsentField]] }

\* The agent's state an evaluation could touch: thresholds, version, check
\* interval, buffer and failure counter.
AgentState ==
    <<remote_thresholds, threshold_version, config_check_interval, buffer,
      consecutive_failures>>

\* What the steps of a cycle leave alone.
outsideCycle ==
    <<threadVars, collectorVars, maxlen, reports, last, buffered_metrics>>

\* run(), up to the main loop: the initial fetch, then the get_threshold
\* calls of the start-up log line, whose exception ends run().
RunStart(resp) ==
    /\ step = "start"
    /\ LET c == FetchRemoteConfig(resp, remote_thresholds, threshold_version,
                                  config_check_interval)
       IN  /\ remote_thresholds' = c.remote_thresholds
           /\ threshold_version' = c.threshold_version
           /\ config_check_interval' = c.config_check_interval
           /\ step' = IF GetThresholdRaises(c.remote_thresholds)
                      THEN "crashed" ELSE "idle"
    /\ UNCHANGED <<now, last_config_check, metrics, alerts, cycle, cycles>>
    /\ UNCHANGED <<buffer, consecutive_failures>>
    /\ UNCHANGED outsideCycle

\* time.time() - self.last_config_check > self.config_check_interval
ConfigCheckDue(time, last_check, interval) == time - last_check > interval

\* Mutant: last_config_check is set only after a fetch that did not fail.
RunOnceConfigStampOnSuccess(resp, limit) ==
    /\ step = "idle"
    /\ cycles < limit
    /\ LET due == ConfigCheckDue(now, last_config_check, config_check_interval)
           c == IF due
                THEN FetchRemoteConfig(resp, remote_thresholds,
                                       threshold_version, config_check_interval)
                ELSE AgentConfig(remote_thresholds, threshold_version,
                                 config_check_interval)
       IN  /\ remote_thresholds' = c.remote_thresholds
           /\ threshold_version' = c.threshold_version
           /\ config_check_interval' = c.config_check_interval
           /\ last_config_check' =
               IF due /\ ~FetchRemoteConfigFails(resp, threshold_version)
               THEN now ELSE last_config_check
           /\ cycle' = [NewCycle(cycles + 1, due) EXCEPT
                           !.start_time = now,
                           !.since_check = now - last_config_check,
                           !.check_interval = config_check_interval,
                           !.resp = IF due THEN resp ELSE NoResponse,
                           !.fetch_failed =
                               due /\ FetchRemoteConfigFails(resp,
                                                             threshold_version),
                           !.calls = IF due THEN <<"fetch_remote_config">>
                                     ELSE <<>>,
                           !.at_start = <<buffer, consecutive_failures,
                                          last_config_check>>]
    /\ metrics' = NoMetrics
    /\ alerts' = <<>>
    /\ step' = "collect"
    /\ UNCHANGED <<now, cycles, buffer, consecutive_failures>>
    /\ UNCHANGED outsideCycle

\* run_once: the throttled config check, in a run of at most `limit` cycles
RunOnceConfigUpTo(resp, limit) ==
    /\ step = "idle"
    /\ cycles < limit
    /\ LET due == ConfigCheckDue(now, last_config_check, config_check_interval)
           c == IF due
                THEN FetchRemoteConfig(resp, remote_thresholds,
                                       threshold_version, config_check_interval)
                ELSE AgentConfig(remote_thresholds, threshold_version,
                                 config_check_interval)
       IN  /\ remote_thresholds' = c.remote_thresholds
           /\ threshold_version' = c.threshold_version
           /\ config_check_interval' = c.config_check_interval
           /\ last_config_check' = IF due THEN now ELSE last_config_check
           /\ cycle' = [NewCycle(cycles + 1, due) EXCEPT
                           !.start_time = now,
                           !.since_check = now - last_config_check,
                           !.check_interval = config_check_interval,
                           !.resp = IF due THEN resp ELSE NoResponse,
                           !.fetch_failed =
                               due /\ FetchRemoteConfigFails(resp,
                                                             threshold_version),
                           !.calls = IF due THEN <<"fetch_remote_config">>
                                     ELSE <<>>,
                           !.at_start = <<buffer, consecutive_failures,
                                          last_config_check>>]
    /\ metrics' = NoMetrics
    /\ alerts' = <<>>
    /\ step' = "collect"
    /\ UNCHANGED <<now, cycles, buffer, consecutive_failures>>
    /\ UNCHANGED outsideCycle

\* run_once: the throttled config check
RunOnceConfig(resp) == RunOnceConfigUpTo(resp, MaxCycles)

\* run_once: metrics = self.collect_metrics()
RunOnceCollect(reading, failing) ==
    /\ step = "collect"
    /\ IF CollectMetricsRaises(remote_thresholds)
       THEN /\ cycle' = [cycle EXCEPT !.raised = "collect_metrics",
                       !.calls = Append(@, "collect_metrics")]
            /\ step' = "sleep"
            /\ UNCHANGED metrics
       ELSE /\ metrics' = CollectMetrics(remote_thresholds, threshold_version,
                                         now, reading, failing)
            /\ cycle' = [cycle EXCEPT !.collected = TRUE, !.reading = reading,
                                      !.failing = failing,
                                      !.calls = Append(@, "collect_metrics")]
            /\ step' = "check"
    /\ UNCHANGED <<now, last_config_check, alerts, cycles>>
    /\ UNCHANGED <<remote_thresholds, threshold_version, config_check_interval,
                   buffer, consecutive_failures>>
    /\ UNCHANGED outsideCycle

\* Mutant: the alerts are sent right after the evaluation and the snapshot
\* is not delivered.
RunOnceCheckThenAlerts ==
    /\ step = "check"
    /\ IF CheckThresholdsRaises(metrics, remote_thresholds)
       THEN /\ cycle' = [cycle EXCEPT !.raised = "check_thresholds",
                                      !.before_check = AgentState,
                                      !.calls = Append(@, "check_thresholds")]
            /\ step' = "sleep"
            /\ UNCHANGED alerts
       ELSE /\ alerts' = CheckThresholds(metrics, remote_thresholds)
            /\ cycle' = [cycle EXCEPT !.evaluated = TRUE,
                                      !.before_check = AgentState,
                                      !.calls = Append(@, "check_thresholds")]
            /\ step' = "alerts"
    /\ UNCHANGED <<now, last_config_check, metrics, cycles>>
    /\ UNCHANGED <<remote_thresholds, threshold_version, config_check_interval,
                   buffer, consecutive_failures>>
    /\ UNCHANGED outsideCycle

\* Mutant: an exception of check_thresholds is not caught by run_once and
\* ends run().
RunOnceCheckUncaught ==
    /\ step = "check"
    /\ IF CheckThresholdsRaises(metrics, remote_thresholds)
       THEN /\ cycle' = [cycle EXCEPT !.raised = "check_thresholds",
                                      !.before_check = AgentState,
                                      !.calls = Append(@, "check_thresholds")]
            /\ step' = "crashed"
            /\ UNCHANGED alerts
       ELSE /\ alerts' = CheckThresholds(metrics, remote_thresholds)
            /\ cycle' = [cycle EXCEPT !.evaluated = TRUE,
                                      !.before_check = AgentState,
                                      !.calls = Append(@, "check_thresholds")]
            /\ step' = "report"
    /\ UNCHANGED <<now, last_config_check, metrics, cycles>>
    /\ UNCHANGED <<remote_thresholds, threshold_version, config_check_interval,
                   buffer, consecutive_failures>>
    /\ UNCHANGED outsideCycle

\* Mutant: an exception of check_thresholds is swallowed where it is
\* raised and the cycle goes on with no alerts.
RunOnceCheckSwallows ==
    /\ step = "check"
    /\ IF CheckThresholdsRaises(metrics, remote_thresholds)
       THEN /\ cycle' = [cycle EXCEPT !.raised = "check_thresholds",
                                      !.before_check = AgentState,
                                      !.calls = Append(@, "check_thresholds")]
            /\ step' = "report"
            /\ UNCHANGED alerts
       ELSE /\ alerts' = CheckThresholds(metrics, remote_thresholds)
            /\ cycle' = [cycle EXCEPT !.evaluated = TRUE,
                                      !.before_check = AgentState,
                                      !.calls = Append(@, "check_thresholds")]
            /\ step' = "report"
    /\ UNCHANGED <<now, last_config_check, metrics, cycles>>
    /\ UNCHANGED <<remote_thresholds, threshold_version, config_check_interval,
                   buffer, consecutive_failures>>
    /\ UNCHANGED outsideCycle

\* run_once: alerts = self.check_thresholds(metrics)
RunOnceCheck ==
    /\ step = "check"
    /\ IF CheckThresholdsRaises(metrics, remote_thresholds)
       THEN /\ cycle' = [cycle EXCEPT !.raised = "check_thresholds",
                                      !.before_check = AgentState,
                                      !.calls = Append(@, "check_thresholds")]
            /\ step' = "sleep"
            /\ UNCHANGED alerts
       ELSE /\ alerts' = CheckThresholds(metrics, remote_thresholds)
            /\ cycle' = [cycle EXCEPT !.evaluated = TRUE,
                                      !.before_check = AgentState,
                                      !.calls = Append(@, "check_thresholds")]
            /\ step' = "report"
    /\ UNCHANGED <<now, last_config_check, metrics, cycles>>
    /\ UNCHANGED <<remote_thresholds, threshold_version, config_check_interval,
                   buffer, consecutive_failures>>
    /\ UNCHANGED outsideCycle

\* Mutant: the alerts are sent only when the snapshot was delivered.
RunOnceReportThenAlertsIfDelivered(first, redeliver) ==
    /\ step = "report"
    /\ LET r == ReportMetrics(metrics.timestamp, first, redeliver, buffer,
                              consecutive_failures, maxlen)
       IN  /\ consecutive_failures' = r.consecutive_failures
           /\ buffer' = r.buffer
           /\ cycle' = [cycle EXCEPT !.reported = TRUE,
                                     !.calls = Append(@, "report_metrics"),
                                     !.metric_posts = MetricPosts(r.posts),
                                     !.failures = r.consecutive_failures,
                                     !.buffered = r.buffer]
    /\ step' = IF alerts # <<>> /\ first = "ok" THEN "alerts" ELSE "sleep"
    /\ UNCHANGED <<now, last_config_check, metrics, alerts, cycles>>
    /\ UNCHANGED <<remote_thresholds, threshold_version, config_check_interval>>
    /\ UNCHANGED outsideCycle

\* run_once: self.report_metrics(metrics); the buffer keeps a snapshot by
\* its timestamp.
RunOnceReport(first, redeliver) ==
    /\ step = "report"
    /\ LET r == ReportMetrics(metrics.timestamp, first, redeliver, buffer,
                              consecutive_failures, maxlen)
       IN  /\ consecutive_failures' = r.consecutive_failures
           /\ buffer' = r.buffer
           /\ cycle' = [cycle EXCEPT !.reported = TRUE,
                                     !.calls = Append(@, "report_metrics"),
                                     !.metric_posts = MetricPosts(r.posts),
                                     !.failures = r.consecutive_failures,
                                     !.buffered = r.buffer]
    /\ step' = IF alerts # <<>> THEN "alerts" ELSE "sleep"
    /\ UNCHANGED <<now, last_config_check, metrics, alerts, cycles>>
    /\ UNCHANGED <<remote_thresholds, threshold_version, config_check_interval>>
    /\ UNCHANGED outsideCycle

\* run_once: self.send_alerts(alerts)
RunOnceSendAlerts(outcomes) ==
    /\ step = "alerts"
    /\ cycle' = [cycle EXCEPT !.sent = TRUE,
                              !.calls = Append(@, "send_alerts"),
                              !.alert_posts = SendAlerts(alerts, outcomes)]
    /\ step' = "sleep"
    /\ UNCHANGED <<now, last_config_check, metrics, alerts, cycles>>
    /\ UNCHANGED <<remote_thresholds, threshold_version, config_check_interval,
                   buffer, consecutive_failures>>
    /\ UNCHANGED outsideCycle

\* Mutant: the remaining time is slept as computed, without max(0, ...).
SleepTimeUnclamped(elapsed) == Interval - elapsed

\* sleep_time = max(0, self.interval - elapsed)
SleepTime(elapsed) ==
    IF Interval - elapsed > 0 THEN Interval - elapsed ELSE 0

\* What time.time() - start_time can be after run_once: a part of the
\* interval, the interval, more than the interval. The local clock is
\* trusted: it does not step back while a cycle runs.
Durations == {Interval \div 3, Interval, Interval + Interval \div 2}

\* run: run_once has returned after `elapsed` seconds; sleep until the
\* next interval (time.sleep is called when sleep_time > 0)
Sleep(elapsed) ==
    /\ step = "sleep"
    /\ now' = now + elapsed + SleepTime(elapsed)
    /\ cycles' = cycles + 1
    /\ step' = "idle"
    /\ cycle' = [cycle EXCEPT !.slept = TRUE, !.elapsed = elapsed,
                              !.sleep_time = SleepTime(elapsed)]
    /\ UNCHANGED <<last_config_check, metrics, alerts>>
    /\ UNCHANGED <<remote_thresholds, threshold_version, config_check_interval,
                   buffer, consecutive_failures>>
    /\ UNCHANGED outsideCycle

\* The main thread running run()
NextCycle ==
    \/ \E resp \in CycleResponses : RunStart(resp)
    \/ \E resp \in CycleResponses : RunOnceConfig(resp)
    \/ \E outcome \in CollectOutcomes : RunOnceCollect(outcome[1], outcome[2])
    \/ RunOnceCheck
    \/ \E first \in FirstOutcomes :
          \E redeliver \in [1..Len(buffer) -> BOOLEAN] :
              RunOnceReport(first, redeliver)
    \/ \E outcomes \in [1..Len(alerts) -> BOOLEAN] : RunOnceSendAlerts(outcomes)
    \/ \E elapsed \in Durations : Sleep(elapsed)

SpecCycle == Init /\ [][NextCycle]_vars

\* The main thread keeps running: every call of a cycle returns or raises
\* (the requests have timeouts, time.sleep is finite), so a step that can
\* be taken is taken.
SpecCycleFair == SpecCycle /\ WF_vars(NextCycle)

----------------------------------------------------------------------------
(* The cycles of a long run *)

MaxOutageCycles == 6       \* cycles of the main loop in a long run

\* The config server cannot be reached: session.get raises.
Unreachable == [status |-> 0, body |-> "none", fields |-> NoFields]

\* The collectors all return: nothing to report, one alert (cpu), or two
\* alerts (a full mount and a service that is down).
OutageReadings ==
    { Reading(50, 50, 50, 50, TRUE, TRUE),
      Reading(82, 50, 50, 50, TRUE, TRUE),
      Reading(50, 50, 95, 50, FALSE, TRUE) }

\* The main thread running run() for MaxOutageCycles cycles, each taking
\* the interval, every request to the server succeeding or failing.
NextOutage ==
    \/ RunStart(Unreachable)
    \/ RunOnceConfigUpTo(Unreachable, MaxOutageCycles)
    \/ \E reading \in OutageReadings : RunOnceCollect(reading, NoCollector)
    \/ RunOnceCheck
    \/ \E first \in FirstOutcomes :
          \E redeliver \in [1..Len(buffer) -> BOOLEAN] :
              RunOnceReport(first, redeliver)
    \/ \E outcomes \in [1..Len(alerts) -> BOOLEAN] : RunOnceSendAlerts(outcomes)
    \/ Sleep(Interval)

SpecOutage == Init /\ [][NextOutage]_vars

----------------------------------------------------------------------------
(* A rate collector on its own *)

\* What a collect call leaves alone: everything outside the collector.
outsideCollector == <<bufVars, remote_thresholds, threshold_version,
                      config_check_interval, consecutive_failures, reports,
                      cycleVars>>

\* The history of one collect call.
Collected(current_time, counters, r) ==
    [op |-> "collect", collector |-> collector,
     current_time |-> current_time, counters |-> counters,
     pre_counters |-> last_counters, pre_time |-> last_time,
     raised |-> r.raised, data |-> r.data]

\* self.collectors['disk_io'].collect()
DiskIOCollectCall(current_time, counters) ==
    /\ collector = "disk_io"
    /\ LET r == DiskIOCollect(last_counters, last_time, current_time, counters)
       IN  /\ last_counters' = r.last_counters
           /\ last_time' = r.last_time
           /\ last' = Collected(current_time, counters, r)
    /\ UNCHANGED collector
    /\ UNCHANGED outsideCollector

\* self.collectors['network'].collect()
NetworkCollectCall(current_time, counters) ==
    /\ collector = "network"
    /\ LET r == NetworkCollect(last_counters, last_time, current_time, counters)
       IN  /\ last_counters' = r.last_counters
           /\ last_time' = r.last_time
           /\ last' = Collected(current_time, counters, r)
    /\ UNCHANGED collector
    /\ UNCHANGED outsideCollector

\* One of the two rate collectors, freshly constructed
InitRate ==
    /\ InitAgentState
    /\ maxlen = DefaultMaxSize
    /\ buffer = <<>>
    /\ InitThreads
    /\ collector \in RateCollectors
    /\ InitCollector
    /\ InitCycle

\* Any sequence of collects, the clock and psutil returning anything.
NextRate ==
    \E current_time \in Times :
        \/ \E counters \in DiskSamples : DiskIOCollectCall(current_time, counters)
        \/ \E counters \in NetSamples : NetworkCollectCall(current_time, counters)

SpecRate == InitRate /\ [][NextRate]_vars

----------------------------------------------------------------------------
(* MetricBuffer methods, one action per step of each; where the calling  *)
(* thread is and what its locals are is the caller's business            *)

\* add: enter `with self.lock`
AddEnter(t) ==
    /\ pc[t] = "idle"
    /\ nextId <= MaxAdds
    /\ LockAcquire(t)
    /\ pc' = [pc EXCEPT ![t] = "add_append"]
    /\ arg' = [arg EXCEPT ![t] = nextId]
    /\ nextId' = nextId + 1
    /\ UNCHANGED <<maxlen, buffer, local, evicted, returned, lastOp, prevOp>>
    /\ UNCHANGED agentVars
    /\ UNCHANGED <<collectorVars, cycleData>>

\* add: self.buffer.append(metrics)
AddAppend(t) ==
    /\ pc[t] = "add_append"
    /\ buffer' = DequeAppend(buffer, arg[t], maxlen)
    /\ evicted' = evicted \cup DequeDropped(buffer, arg[t], maxlen)
    /\ prevOp' = lastOp
    /\ lastOp' = [op |-> "add", arg |-> arg[t], pre |-> buffer,
                  post |-> buffer', ret |-> <<>>]
    /\ pc' = [pc EXCEPT ![t] = "add_exit"]
    /\ UNCHANGED <<maxlen, lock, arg, local, nextId, returned>>
    /\ UNCHANGED agentVars
    /\ UNCHANGED <<collectorVars, cycleData>>

\* add: leave `with self.lock`
AddExit(t) ==
    /\ pc[t] = "add_exit"
    /\ LockRelease(t)
    /\ pc' = [pc EXCEPT ![t] = "idle"]
    /\ UNCHANGED <<maxlen, buffer, arg, local, nextId, evicted, returned,
                   lastOp, prevOp>>
    /\ UNCHANGED agentVars
    /\ UNCHANGED <<collectorVars, cycleData>>

\* get_all: enter `with self.lock`
GetAllEnter(t) ==
    /\ pc[t] = "idle"
    /\ LockAcquire(t)
    /\ pc' = [pc EXCEPT ![t] = "get_copy"]
    /\ UNCHANGED <<maxlen, buffer, arg, local, nextId, evicted, returned,
                   lastOp, prevOp>>
    /\ UNCHANGED agentVars
    /\ UNCHANGED <<collectorVars, cycleData>>

\* get_all: metrics = list(self.buffer)
GetAllCopy(t) ==
    /\ pc[t] = "get_copy"
    /\ local' = [local EXCEPT ![t] = DequeList(buffer)]
    /\ pc' = [pc EXCEPT ![t] = "get_clear"]
    /\ UNCHANGED <<maxlen, buffer, lock, arg, nextId, evicted, returned,
                   lastOp, prevOp>>
    /\ UNCHANGED agentVars
    /\ UNCHANGED <<collectorVars, cycleData>>

\* get_all: self.buffer.clear()
GetAllClear(t) ==
    /\ pc[t] = "get_clear"
    /\ buffer' = DequeClear(buffer)
    /\ prevOp' = lastOp
    /\ lastOp' = [op |-> "get_all", arg |-> 0, pre |-> buffer,
                  post |-> buffer', ret |-> local[t]]
    /\ pc' = [pc EXCEPT ![t] = "get_return"]
    /\ UNCHANGED <<maxlen, lock, arg, local, nextId, evicted, returned>>
    /\ UNCHANGED agentVars
    /\ UNCHANGED <<collectorVars, cycleData>>

\* get_all: return metrics (leaves `with self.lock`)
GetAllReturn(t) ==
    /\ pc[t] = "get_return"
    /\ LockRelease(t)
    /\ returned' = [e \in Entries |->
                      IF e \in SeqToSet(local[t]) THEN returned[e] + 1
                      ELSE returned[e]]
    /\ local' = [local EXCEPT ![t] = <<>>]
    /\ pc' = [pc EXCEPT ![t] = "idle"]
    /\ UNCHANGED <<maxlen, buffer, arg, nextId, evicted, lastOp, prevOp>>
    /\ UNCHANGED agentVars
    /\ UNCHANGED <<collectorVars, cycleData>>

\* size: enter `with self.lock`
SizeEnter(t) ==
    /\ pc[t] = "idle"
    /\ LockAcquire(t)
    /\ pc' = [pc EXCEPT ![t] = "size_return"]
    /\ UNCHANGED <<maxlen, buffer, arg, local, nextId, evicted, returned,
                   lastOp, prevOp>>
    /\ UNCHANGED agentVars
    /\ UNCHANGED <<collectorVars, cycleData>>

\* size: return len(self.buffer) (leaves `with self.lock`)
SizeReturn(t) ==
    /\ pc[t] = "size_return"
    /\ LockRelease(t)
    /\ prevOp' = lastOp
    /\ lastOp' = [op |-> "size", arg |-> 0, pre |-> buffer, post |-> buffer,
                  ret |-> <<Len(buffer)>>]
    /\ pc' = [pc EXCEPT ![t] = "idle"]
    /\ UNCHANGED <<maxlen, buffer, arg, local, nextId, evicted, returned>>
    /\ UNCHANGED agentVars
    /\ UNCHANGED <<collectorVars, cycleData>>

\* MetricBuffer.__init__(max_size): an empty deque of that maxlen, a free lock
InitBuf ==
    /\ collector = "disk_io"
    /\ InitCollector
    /\ InitCycle
    /\ maxlen \in 1..BufCap
    /\ buffer = <<>>
    /\ InitThreads
    /\ InitAgentState

\* A thread other than the reporter in one step of a MetricBuffer method.
BufferStep(t) ==
    /\ \/ AddEnter(t)
       \/ AddAppend(t)
       \/ AddExit(t)
       \/ GetAllEnter(t)
       \/ GetAllCopy(t)
       \/ GetAllClear(t)
       \/ GetAllReturn(t)
       \/ SizeEnter(t)
       \/ SizeReturn(t)
    /\ UNCHANGED <<step, buffered_metrics>>

NextBuf == \E t \in Threads : BufferStep(t)

SpecBuf == InitBuf /\ [][NextBuf]_vars

----------------------------------------------------------------------------
(* The reporter's requests and buffer calls, step by step, beside other   *)
(* threads using the buffer                                                *)

MaxLockReports == 2        \* report_metrics calls of the main thread

\* The thread that runs run(): the only one that makes HTTP requests.
MainThread == 1

\* A thread that uses the buffer beside the main thread.
OtherThread == 2

\* What the server answers to the config GET: nothing (the request
\* raises), or a first set of thresholds.
LockResponses ==
    {resp \in CycleResponses :
        resp.status = 0 \/ resp.fields.thresholds = Dict([cpu |-> 50])}

\* What a step of the main thread outside the buffer leaves alone.
outsideRequest ==
    <<bufVars, collectorVars, cycleData, last>>

\* report_metrics: session.post of the current snapshot is sent
ReportPostSend ==
    /\ step = "ready"
    /\ reports < MaxLockReports
    /\ reports' = reports + 1
    /\ step' = "post_metrics"
    /\ UNCHANGED <<remote_thresholds, threshold_version, config_check_interval,
                   consecutive_failures, buffered_metrics>>
    /\ UNCHANGED outsideRequest

\* report_metrics: the POST and raise_for_status return, and the counter
\* is reset; or one of them raises, and the counter goes up
ReportPostReturn(ok) ==
    /\ step = "post_metrics"
    /\ IF ok
       THEN /\ consecutive_failures' = 0
            /\ step' = "size"
       ELSE /\ consecutive_failures' = consecutive_failures + 1
            /\ step' = IF consecutive_failures + 1 < MaxConsecutiveFailures
                       THEN "add" ELSE "ready"
    /\ UNCHANGED <<remote_thresholds, threshold_version, config_check_interval,
                   reports, buffered_metrics>>
    /\ UNCHANGED outsideRequest

\* report_metrics: if self.metric_buffer.size() > 0
ReportSizeCheck ==
    /\ step = "size"
    /\ \/ /\ SizeEnter(MainThread)
          /\ UNCHANGED step
       \/ /\ SizeReturn(MainThread)
          /\ step' = IF Len(buffer) > 0 THEN "size_log" ELSE "ready"
    /\ UNCHANGED buffered_metrics

\* report_metrics: self.metric_buffer.size() of the log line
ReportSizeLog ==
    /\ step = "size_log"
    /\ \/ /\ SizeEnter(MainThread)
          /\ UNCHANGED step
       \/ /\ SizeReturn(MainThread)
          /\ step' = "get_all"
    /\ UNCHANGED buffered_metrics

\* report_metrics: buffered_metrics = self.metric_buffer.get_all()
ReportGetAll ==
    /\ step = "get_all"
    /\ \/ /\ \/ GetAllEnter(MainThread)
             \/ GetAllCopy(MainThread)
             \/ GetAllClear(MainThread)
          /\ UNCHANGED <<step, buffered_metrics>>
       \/ /\ GetAllReturn(MainThread)
          /\ buffered_metrics' = local[MainThread]
          /\ step' = IF local[MainThread] = <<>> THEN "ready" ELSE "redeliver"

\* report_metrics: session.post of the next buffered snapshot is sent
RedeliverSend ==
    /\ step = "redeliver"
    /\ step' = "post_buffered"
    /\ UNCHANGED <<agentVars, buffered_metrics>>
    /\ UNCHANGED outsideRequest

\* report_metrics: that POST returns, or raises and is logged; the loop
\* goes to the next buffered snapshot
RedeliverReturn ==
    /\ step = "post_buffered"
    /\ buffered_metrics' = Tail(buffered_metrics)
    /\ step' = IF Tail(buffered_metrics) = <<>> THEN "ready" ELSE "redeliver"
    /\ UNCHANGED agentVars
    /\ UNCHANGED outsideRequest

\* report_metrics: self.metric_buffer.add(metrics) after a failure
ReportAdd ==
    /\ step = "add"
    /\ \/ /\ \/ AddEnter(MainThread)
             \/ AddAppend(MainThread)
          /\ UNCHANGED step
       \/ /\ AddExit(MainThread)
          /\ step' = "size_added"
    /\ UNCHANGED buffered_metrics

\* report_metrics: self.metric_buffer.size() of the log line after add
ReportSizeAdded ==
    /\ step = "size_added"
    /\ \/ /\ SizeEnter(MainThread)
          /\ UNCHANGED step
       \/ /\ SizeReturn(MainThread)
          /\ step' = "ready"
    /\ UNCHANGED buffered_metrics

\* send_alerts: session.post of an alert is sent
AlertPostSend ==
    /\ step = "ready"
    /\ step' = "post_alert"
    /\ UNCHANGED <<agentVars, buffered_metrics>>
    /\ UNCHANGED outsideRequest

\* send_alerts: the POST returns, or raises and is logged
AlertPostReturn ==
    /\ step = "post_alert"
    /\ step' = "ready"
    /\ UNCHANGED <<agentVars, buffered_metrics>>
    /\ UNCHANGED outsideRequest

\* fetch_remote_config: session.get of /agent/config is sent
ConfigGetSend ==
    /\ step = "ready"
    /\ step' = "get_config"
    /\ UNCHANGED <<agentVars, buffered_metrics>>
    /\ UNCHANGED outsideRequest

\* fetch_remote_config: the GET returns resp or raises, and the response
\* is processed
ConfigGetReturn(resp) ==
    /\ step = "get_config"
    /\ LET c == FetchRemoteConfig(resp, remote_thresholds, threshold_version,
                                  config_check_interval)
       IN  /\ remote_thresholds' = c.remote_thresholds
           /\ threshold_version' = c.threshold_version
           /\ config_check_interval' = c.config_check_interval
    /\ step' = "ready"
    /\ UNCHANGED <<consecutive_failures, reports, buffered_metrics>>
    /\ UNCHANGED outsideRequest

\* The agent with its main thread between two calls.
InitLock ==
    /\ InitAgentState
    /\ maxlen = DefaultMaxSize
    /\ buffer = <<>>
    /\ InitThreads
    /\ collector = "disk_io"
    /\ InitCollector
    /\ now = StartTime
    /\ last_config_check = 0
    /\ step = "ready"
    /\ metrics = NoMetrics
    /\ alerts = <<>>
    /\ cycle = NoCycle
    /\ cycles = 0
    /\ buffered_metrics = <<>>

\* The main thread making its requests and buffer calls in any order the
\* code allows, another thread calling the buffer's methods freely.
NextLock ==
    \/ ReportPostSend
    \/ \E ok \in BOOLEAN : ReportPostReturn(ok)
    \/ ReportSizeCheck
    \/ ReportSizeLog
    \/ ReportGetAll
    \/ RedeliverSend
    \/ RedeliverReturn
    \/ ReportAdd
    \/ ReportSizeAdded
    \/ AlertPostSend
    \/ AlertPostReturn
    \/ ConfigGetSend
    \/ \E resp \in LockResponses : ConfigGetReturn(resp)
    \/ BufferStep(OtherThread)

SpecLock == InitLock /\ [][NextLock]_vars

----------------------------------------------------------------------------
(* report_metrics claims, checked under SpecReport *)

FailedReport == last.op = "report" /\ last.first # "ok"
DeliveredReport == last.op = "report" /\ last.first = "ok"

\* C1: a failed delivery (session.post or raise_for_status raising) adds
\* exactly one to consecutive_failures, and the failed snapshot is appended
\* to the buffer if and only if the counter after the increment is below
\* max_consecutive_failures; otherwise the buffer is as it was.
C1_FailureCountsAndBuffersBelowCeiling ==
    FailedReport =>
        /\ consecutive_failures = last.pre_failures + 1
        /\ consecutive_failures < MaxConsecutiveFailures =>
             buffer = Append(last.pre_buffer, last.m)
        /\ consecutive_failures >= MaxConsecutiveFailures =>
             /\ buffer = last.pre_buffer
             /\ last.m \notin SeqToSet(buffer)

\* C1 witness: raise_for_status raised on the fourth failure in a row and
\* the snapshot was buffered behind the three before it.
C1_Witness ==
    /\ FailedReport
    /\ last.first = "status_raises"
    /\ last.pre_failures = MaxConsecutiveFailures - 2
    /\ Len(last.pre_buffer) = MaxConsecutiveFailures - 2
    /\ Len(buffer) = MaxConsecutiveFailures - 1

\* C2: after max_consecutive_failures failed deliveries in a row, a further
\* failed delivery leaves the buffer exactly as it was and the failed
\* snapshot is not in it.
C2_NoBufferingPastCeiling ==
    FailedReport /\ last.pre_failures >= MaxConsecutiveFailures =>
        /\ buffer = last.pre_buffer
        /\ Len(buffer) = Len(last.pre_buffer)
        /\ last.m \notin SeqToSet(buffer)

\* C2 witness: the seventh failure in a row, two past the ceiling.
C2_Witness ==
    /\ FailedReport
    /\ last.pre_failures = MaxConsecutiveFailures + 1
    /\ Len(last.pre_buffer) = MaxConsecutiveFailures - 1

\* The redelivery POSTs of the last report_metrics call.
RedeliveryPosts == {i \in 1..Len(last.posts) : last.posts[i].kind = "buffered"}

\* C3: after a successful delivery consecutive_failures is 0, the buffer is
\* empty, and every entry the buffer held was POSTed exactly once, in order.
C3_SuccessResetsAndDrains ==
    DeliveredReport =>
        /\ consecutive_failures = 0
        /\ buffer = <<>>
        /\ \A e \in SeqToSet(last.pre_buffer) :
             Cardinality({i \in RedeliveryPosts : last.posts[i].m = e}) = 1
        /\ \A i \in RedeliveryPosts : last.posts[i].m = last.pre_buffer[i - 1]
        /\ last.posts[1] = Post(last.m, "fresh", TRUE)

\* C3 witness: delivery recovers after an outage that passed the ceiling,
\* with four snapshots buffered.
C3_Witness ==
    /\ DeliveredReport
    /\ last.pre_failures > MaxConsecutiveFailures
    /\ Len(last.pre_buffer) = MaxConsecutiveFailures - 1

\* C4: a failed redelivery of a buffered entry puts nothing back into the
\* buffer, does not count as a failure, and the entries drained after it
\* are still POSTed.
C4_RedeliveryFailureIsAcceptedLoss ==
    DeliveredReport =>
        \A i \in 1..Len(last.pre_buffer) :
            (i + 1 \in RedeliveryPosts /\ ~last.posts[i + 1].ok) =>
                /\ buffer = <<>>
                /\ consecutive_failures = 0
                /\ \A j \in i + 1..Len(last.pre_buffer) :
                     /\ j + 1 \in RedeliveryPosts
                     /\ last.posts[j + 1].m = last.pre_buffer[j]

\* C4 witness: the first of three redeliveries failed and the other two
\* went through.
C4_Witness ==
    /\ DeliveredReport
    /\ Len(last.pre_buffer) = 3
    /\ Len(last.posts) = 4
    /\ ~last.posts[2].ok
    /\ last.posts[3].ok
    /\ last.posts[4].ok

\* C30: in every state reachable by successful and failed report_metrics
\* calls the buffer holds min(consecutive_failures,
\* max_consecutive_failures - 1) snapshots: never more than four with the
\* defaults, so an append by the reporter never meets a full deque and the
\* eviction at capacity 100 does not happen.
C30_BufferSizeFollowsFailureCount ==
    /\ Len(buffer) = IF consecutive_failures <= MaxConsecutiveFailures - 1
                     THEN consecutive_failures
                     ELSE MaxConsecutiveFailures - 1
    /\ Len(buffer) <= 4
    /\ Len(buffer) < maxlen
    /\ FailedReport =>
         /\ Len(last.pre_buffer) < maxlen
         /\ DequeDropped(last.pre_buffer, last.m, maxlen) = {}

\* C30 witness: the sixth failure in a row; the counter is past the ceiling
\* and the buffer stays at four snapshots.
C30_Witness ==
    /\ FailedReport
    /\ consecutive_failures = MaxConsecutiveFailures + 1
    /\ Len(buffer) = MaxConsecutiveFailures - 1
    /\ Len(last.pre_buffer) = MaxConsecutiveFailures - 1

\* The POSTs of snapshot m in the whole run, by index in the log.
PostsOf(m) == {i \in 1..Len(PostLog) : PostLog[i].m = m}
FreshPostsOf(m) == {i \in PostsOf(m) : PostLog[i].kind = "fresh"}
BufferedPostsOf(m) == {i \in PostsOf(m) : PostLog[i].kind = "buffered"}

\* Snapshots are numbered in cycle order; those handed to report_metrics
\* so far.
Reported == 1..reports

\* Whether the delivery of m in its own cycle was accepted.
FreshAccepted(m) == \E i \in FreshPostsOf(m) : PostLog[i].ok

\* The place of snapshot m in its outage: 0 if its own delivery was accepted,
\* otherwise the number of failed cycles in a row that end with m's.
RECURSIVE OutagePosition(_)
OutagePosition(m) ==
    IF m = 0 \/ FreshAccepted(m) THEN 0 ELSE 1 + OutagePosition(m - 1)

\* The first n elements of s (all of s if it is shorter).
FirstOf(s, n) == SubSeq(s, 1, IF Len(s) < n THEN Len(s) ELSE n)

\* C31: during an outage of k >= 5 failed cycles in a row the buffer holds
\* exactly the snapshots of the first max_consecutive_failures - 1 = 4 failed
\* cycles of the outage, in cycle order; when delivery recovers exactly
\* these four are redelivered; and a snapshot that was the 5th or a later
\* failure of its outage is never in the buffer and is never POSTed again:
\* its one POST is the failed attempt of its own cycle.
C31_OutageKeepsFirstFour ==
    /\ Len(Outage) >= MaxConsecutiveFailures =>
          /\ buffer = FirstOf(Outage, MaxConsecutiveFailures - 1)
          /\ buffer = <<Outage[1], Outage[2], Outage[3], Outage[4]>>
    /\ DeliveredReport /\ Len(last.pre_outage) >= MaxConsecutiveFailures =>
          /\ Len(last.posts) = MaxConsecutiveFailures
          /\ \A i \in 1..MaxConsecutiveFailures - 1 :
                last.posts[i + 1].m = last.pre_outage[i]
    /\ \A m \in Reported :
          OutagePosition(m) >= MaxConsecutiveFailures =>
              /\ m \notin SeqToSet(buffer)
              /\ BufferedPostsOf(m) = {}
              /\ Cardinality(PostsOf(m)) = 1
              /\ \A i \in PostsOf(m) : ~PostLog[i].ok

\* C31 witness: delivery recovers after an outage of six failed cycles; the
\* first four snapshots are redelivered, the fifth and sixth are gone.
C31_Witness ==
    /\ DeliveredReport
    /\ Len(last.pre_outage) = MaxConsecutiveFailures + 1
    /\ Len(last.posts) = MaxConsecutiveFailures
    /\ OutagePosition(last.m - 1) = MaxConsecutiveFailures + 1
    /\ OutagePosition(last.m - 2) = MaxConsecutiveFailures

\* C32: when delivery recovers, the current snapshot is POSTed first and
\* the buffered snapshots after it, oldest first; every POST of a buffered
\* snapshot comes after the accepted POST of a newer snapshot; and in the
\* whole run every snapshot is POSTed once when fresh and at most once from
\* the buffer, so at most twice.
C32_FreshFirstThenOldestFirstAtMostTwice ==
    /\ DeliveredReport =>
          /\ last.posts[1] = Post(last.m, "fresh", TRUE)
          /\ Len(last.posts) = 1 + Len(last.pre_buffer)
          /\ \A i \in 2..Len(last.posts) :
                /\ last.posts[i].kind = "buffered"
                /\ last.posts[i].m = last.pre_buffer[i - 1]
                /\ last.posts[i].m < last.m
                /\ i > 2 => last.posts[i - 1].m < last.posts[i].m
    /\ \A i \in 1..Len(PostLog) :
          PostLog[i].kind = "buffered" =>
              \E j \in 1..i - 1 :
                  /\ PostLog[j].kind = "fresh"
                  /\ PostLog[j].ok
                  /\ PostLog[j].m > PostLog[i].m
    /\ \A m \in Reported :
          /\ Cardinality(FreshPostsOf(m)) = 1
          /\ Cardinality(BufferedPostsOf(m)) <= 1
          /\ Cardinality(PostsOf(m)) <= 2

\* C32 witness: a second recovery redelivers two buffered snapshots after an
\* earlier recovery lost a buffered snapshot to a failed redelivery; that
\* snapshot has had its two POSTs and is not POSTed again.
C32_Witness ==
    /\ DeliveredReport
    /\ Len(last.pre_buffer) = 2
    /\ last.posts[2].m < last.posts[3].m
    /\ \E m \in Reported :
          /\ Cardinality(PostsOf(m)) = 2
          /\ \E i \in BufferedPostsOf(m) :
                /\ ~PostLog[i].ok
                /\ i <= Len(PostLog) - Len(last.posts)

----------------------------------------------------------------------------
(* fetch_remote_config claims, checked under SpecConfig *)

Fetched == last.op = "fetch"

\* The last fetch got a 200 with a JSON object whose version is readable.
FetchedObject ==
    /\ Fetched
    /\ last.resp.status = 200
    /\ last.resp.body = "object"
    /\ last.resp.fields.version.kind # "str"

\* The version the last response carried (0 when it carried none).
FetchedVersion ==
    IF last.resp.fields.version.kind = "int" THEN last.resp.fields.version.v
    ELSE 0

\* The thresholds the last response carried ({} when it carried none).
FetchedThresholds ==
    IF last.resp.fields.thresholds.kind = "absent" THEN EmptyDict
    ELSE last.resp.fields.thresholds

Default(name) == CASE name = "cpu" -> 80 [] name = "memory" -> 85 [] OTHER -> 90

\* C8: remote_thresholds and threshold_version are replaced only by a
\* response whose version is strictly greater than the held one; a response
\* with an equal or lower version leaves both, and every effective
\* threshold, as they were.
C8_OnlyNewerVersionReplaces ==
    Fetched =>
        /\ (remote_thresholds # last.pre.remote_thresholds
              \/ threshold_version # last.pre.threshold_version) =>
             (FetchedObject /\ FetchedVersion > last.pre.threshold_version)
        /\ (FetchedObject /\ FetchedVersion <= last.pre.threshold_version) =>
             /\ remote_thresholds = last.pre.remote_thresholds
             /\ threshold_version = last.pre.threshold_version
             /\ remote_thresholds.kind = "dict" =>
                  \A name \in MetricNames :
                     GetThreshold(remote_thresholds, name, Default(name))
                       = GetThreshold(last.pre.remote_thresholds, name, Default(name))

\* C8 witness: version 2 with {cpu: 50} is held and a response with version
\* 2 and {cpu: 99} arrived.
C8_Witness ==
    /\ FetchedObject
    /\ last.pre.threshold_version = 2
    /\ last.pre.remote_thresholds = Dict([cpu |-> 50])
    /\ last.resp.fields.version = [kind |-> "int", v |-> 2]
    /\ last.resp.fields.thresholds = Dict([cpu |-> 99])

\* The last fetch carried a strictly greater version.
Accepted == FetchedObject /\ FetchedVersion > last.pre.threshold_version

\* C9: when a response with a strictly greater version is accepted, the held
\* set becomes exactly the fetched one: a key of the previous set that the
\* new set lacks is gone, and that metric falls back to its local threshold.
C9_AcceptedSetReplacesWholesale ==
    Accepted =>
        /\ remote_thresholds = FetchedThresholds
        /\ threshold_version = FetchedVersion
        /\ remote_thresholds.kind = "dict" =>
             \A name \in DOMAIN last.pre.remote_thresholds.map :
                name \notin DOMAIN FetchedThresholds.map =>
                    /\ name \notin DOMAIN remote_thresholds.map
                    /\ GetThreshold(remote_thresholds, name, Default(name))
                         = IF name \in DOMAIN LocalThresholds
                           THEN LocalThresholds[name] ELSE Default(name)

\* C9 witness: {cpu: 50, memory: 70} was held and a newer {cpu: 99} was
\* accepted.
C9_Witness ==
    /\ Accepted
    /\ last.pre.remote_thresholds = Dict([cpu |-> 50, memory |-> 70])
    /\ last.resp.fields.thresholds = Dict([cpu |-> 99])

\* C10: in every step threshold_version does not decrease, and
\* remote_thresholds changes only in a step in which threshold_version
\* strictly increases.
C10_VersionNeverDecreases ==
    [][/\ threshold_version' >= threshold_version
       /\ remote_thresholds' # remote_thresholds =>
            threshold_version' > threshold_version]_vars

\* C10 witness: with the largest version held, a response carrying an older
\* version and other thresholds arrived (a reordered response).
C10_Witness ==
    /\ FetchedObject
    /\ last.pre.threshold_version = MaxVersion
    /\ last.resp.fields.version.kind = "int"
    /\ FetchedVersion < last.pre.threshold_version
    /\ FetchedVersion > 0
    /\ last.resp.fields.thresholds.kind = "dict"
    /\ last.resp.fields.thresholds # last.pre.remote_thresholds

\* The last operation was a threshold look-up.
LookedUp == last.op = "get_threshold"

\* C11: get_threshold(name, default) returns the held remote value when name
\* is a key of the held remote thresholds, otherwise the locally configured
\* '<name>_threshold', and the default when there is none; with version 2
\* {cpu: 50} held over the local 80 the cpu threshold is 50.
C11_EffectiveThreshold ==
    LookedUp =>
        /\ ~last.raised
        /\ last.metric_type \in DOMAIN remote_thresholds.map =>
             last.value = remote_thresholds.map[last.metric_type]
        /\ (last.metric_type \notin DOMAIN remote_thresholds.map
              /\ last.metric_type \in DOMAIN LocalThresholds) =>
             last.value = LocalThresholds[last.metric_type]
        /\ (last.metric_type \notin DOMAIN remote_thresholds.map
              /\ last.metric_type \notin DOMAIN LocalThresholds) =>
             last.value = last.default
        /\ (threshold_version = 2 /\ remote_thresholds = Dict([cpu |-> 50])
              /\ last.metric_type = "cpu") => last.value = 50

\* The last fetch ended in an exception, a status other than 200, a body
\* that is not a JSON object, or an object with an ill-typed field.
FetchFailed ==
    /\ Fetched
    /\ \/ last.resp.status # 200
       \/ last.resp.body # "object"
       \/ last.resp.fields.version.kind = "str"
       \/ last.resp.fields.thresholds.kind = "null"

\* C13: a fetch that ends in a 404, another non-200 status, a transport
\* error or an unparsable or ill-typed response leaves remote_thresholds and
\* threshold_version as they were.
C13_FailedFetchKeepsThresholds ==
    FetchFailed =>
        /\ remote_thresholds = last.pre.remote_thresholds
        /\ threshold_version = last.pre.threshold_version

\* The check interval the last response carried (300 when it carried none).
FetchedCheckInterval ==
    IF last.resp.fields.check_interval.kind = "absent" THEN 300
    ELSE last.resp.fields.check_interval.v

\* C36: a 200 response whose threshold_version is not greater than the held
\* version leaves remote_thresholds and threshold_version as they were but
\* sets config_check_interval to the response's check_interval, 300 when
\* the response has none; a response with any other status, or no response
\* at all, leaves config_check_interval as it was.
C36_StaleVersionStillSetsInterval ==
    Fetched =>
        /\ (FetchedObject /\ FetchedVersion <= last.pre.threshold_version) =>
              /\ remote_thresholds = last.pre.remote_thresholds
              /\ threshold_version = last.pre.threshold_version
              /\ config_check_interval = FetchedCheckInterval
        /\ last.resp.status # 200 =>
              config_check_interval = last.pre.config_check_interval

\* C36 witness: version 2 with {cpu: 50} and a check interval of 60 are
\* held; a 200 response with version 1, {cpu: 99} and no check_interval
\* arrived and the interval is 300 again.
C36_Witness ==
    /\ FetchedObject
    /\ last.pre.threshold_version = 2
    /\ last.pre.remote_thresholds = Dict([cpu |-> 50])
    /\ last.pre.config_check_interval = 60
    /\ last.resp.fields.version = [kind |-> "int", v |-> 1]
    /\ last.resp.fields.thresholds = Dict([cpu |-> 99])
    /\ last.resp.fields.check_interval.kind = "absent"
    /\ config_check_interval = 300

----------------------------------------------------------------------------
(* Rate collector claims, checked under SpecRate *)

\* The last operation was a collect of the rate collector.
DidCollect == last.op = "collect"

\* The rate fields of the collector with the counter each is derived from:
\* the bytes-per-second ones and the per-second counts (in hundredths).
ByteRates ==
    IF last.collector = "disk_io"
    THEN {<<"read_bytes_per_sec", "read_bytes">>,
          <<"write_bytes_per_sec", "write_bytes">>}
    ELSE {<<"bytes_sent_per_sec", "bytes_sent">>,
          <<"bytes_recv_per_sec", "bytes_recv">>}

CountRates ==
    IF last.collector = "disk_io"
    THEN {<<"read_iops", "read_count">>, <<"write_iops", "write_count">>}
    ELSE {<<"packets_sent_per_sec", "packets_sent">>,
          <<"packets_recv_per_sec", "packets_recv">>}

RateFields == {p[1] : p \in ByteRates \cup CountRates}

\* The raw counters the output carries.
RawFields ==
    IF last.collector = "disk_io"
    THEN {"read_count", "write_count", "read_bytes", "write_bytes"}
    ELSE {"bytes_sent", "bytes_recv", "packets_sent", "packets_recv",
          "errin", "errout", "dropin", "dropout"}

\* The keys of the current reading the collector reports on.
ReportedKeys ==
    {k \in DOMAIN last.counters : ~(last.collector = "network" /\ IsLoopback(k))}

ZeroRates(k) == \A f \in RateFields : last.data[k][f] = 0

RawCounters(k) == \A f \in RawFields : last.data[k][f] = last.counters[k][f]

\* The collector stored the current reading and its time.
StoredCurrent ==
    /\ last_counters = Dict(last.counters)
    /\ last_time = last.current_time

\* The collector's stored sample is what it was before the collect.
StoredUnchanged ==
    /\ last_counters = last.pre_counters
    /\ last_time = last.pre_time

\* The last collect found no previous sample.
FirstCollect == DidCollect /\ last.pre_counters = NullValue

\* C17, as stated: the first collect of a rate collector, with no previous
\* sample stored, returns for every reported key zero rates and the raw
\* counters, stores the sample, and does not raise.
C17_FirstCollectStores ==
    FirstCollect =>
        /\ ~last.raised
        /\ \A k \in DOMAIN last.data : ZeroRates(k) /\ RawCounters(k)
        /\ StoredCurrent

\* C17, amended: the first collect does not raise and returns for every key
\* it reports (all but loopback) zero rates and the raw counters; it stores
\* the sample, except that DiskIOCollector given an empty reading returns {}
\* and stores nothing.
C17_FirstCollectStoresUnlessEmpty ==
    FirstCollect =>
        /\ ~last.raised
        /\ DOMAIN last.data = ReportedKeys
        /\ \A k \in DOMAIN last.data : ZeroRates(k) /\ RawCounters(k)
        /\ IF last.collector = "disk_io" /\ DOMAIN last.counters = {}
           THEN StoredUnchanged
           ELSE StoredCurrent

\* C17 witness: the first collect of a DiskIOCollector read sda at 3000
\* bytes and returned it with a zero rate.
C17_Witness ==
    /\ FirstCollect
    /\ last.collector = "disk_io"
    /\ "sda" \in DOMAIN last.data
    /\ last.data["sda"].read_bytes = 3000
    /\ last.data["sda"].read_bytes_per_sec = 0
    /\ last_time = last.current_time

\* The last collect was the second of two for key k: k was in the stored
\* sample, time advanced, and no counter of k went down.
Consecutive(k) ==
    /\ DidCollect
    /\ IsTruthy(last.pre_counters)
    /\ last.pre_time # NoTime
    /\ last.pre_time < last.current_time
    /\ k \in ReportedKeys
    /\ k \in DOMAIN last.pre_counters.map
    /\ \A p \in ByteRates \cup CountRates :
          last.pre_counters.map[k][p[2]] <= last.counters[k][p[2]]

\* Counter f of key k: current value minus previous value.
Delta(k, f) == last.counters[k][f] - last.pre_counters.map[k][f]

Elapsed == last.current_time - last.pre_time

StaleCollect ==
    /\ DidCollect
    /\ IsTruthy(last.pre_counters)
    /\ last.pre_time # NoTime
    /\ last.current_time <= last.pre_time

\* C19: a collect whose timestamp is not later than the stored one returns
\* zero rates for every key, leaves the stored counters and timestamp
\* unchanged and does not raise.
C19_StaleCollectIsNoOp ==
    StaleCollect =>
        /\ ~last.raised
        /\ \A k \in DOMAIN last.data : ZeroRates(k)
        /\ StoredUnchanged

\* Key k is in the current reading but not in the stored sample, and time
\* advanced.
NewKey(k) ==
    /\ DidCollect
    /\ IsTruthy(last.pre_counters)
    /\ last.pre_time # NoTime
    /\ last.pre_time < last.current_time
    /\ k \in ReportedKeys
    /\ k \notin DOMAIN last.pre_counters.map

\* C20: a key that appears for the first time while a previous sample
\* exists is in the output with zero rates and its raw counters.
C20_NewKeyIsFirstObservation ==
    \A k \in Disks \cup Interfaces :
        NewKey(k) =>
            /\ ~last.raised
            /\ k \in DOMAIN last.data
            /\ ZeroRates(k)
            /\ RawCounters(k)

\* The loopback interfaces among a set of keys.
LoopbackKeys(keys) == {k \in keys : IsLoopback(k)}

\* C21: the loopback interface is excluded from the network domain
\* entirely: after any sequence of collects no loopback key is in the
\* reported network data and none is in the collector's stored sample.
C21_LoopbackNeitherReportedNorStored ==
    collector = "network" =>
        /\ DidCollect => LoopbackKeys(DOMAIN last.data) = {}
        /\ LoopbackKeys(DOMAIN last_counters.map) = {}

----------------------------------------------------------------------------
(* Cycle claims, checked under SpecCycle *)

\* collect_metrics of the current cycle has returned a snapshot.
HasSnapshot == metrics # NoMetrics

\* C12: the source in a snapshot's active_thresholds is 'remote' exactly
\* when the held remote thresholds are non-empty and 'local' otherwise,
\* whether or not cpu, memory or disk are among their keys.
C12_SourceIsRemoteIffNonEmpty ==
    HasSnapshot =>
        /\ metrics.active_thresholds.source \in {"remote", "local"}
        /\ metrics.active_thresholds.source = "remote"
             <=> DOMAIN remote_thresholds.map # {}

\* C12 witness: a snapshot taken while {swap: 60} is held says 'remote'
\* although its cpu, memory and disk thresholds are the local ones.
C12_Witness ==
    /\ HasSnapshot
    /\ remote_thresholds = Dict([swap |-> 60])
    /\ metrics.active_thresholds.source = "remote"
    /\ metrics.active_thresholds.cpu = LocalThresholds["cpu"]

\* The cycle is over, and in it one collector raised inside
\* collect_metrics.
CycleWithFailedCollector ==
    /\ step = "sleep"
    /\ cycle.collected
    /\ cycle.failing # NoCollector

\* C14: when a single collector raises, its domain is an error marker in
\* the snapshot, every other domain is collected, and the cycle goes on
\* to evaluate thresholds and to attempt delivery, whichever of the
\* eight collectors it is.
C14_CollectorFailureIsIsolated ==
    CycleWithFailedCollector =>
        /\ metrics[cycle.failing] = ErrorMarker
        /\ \A name \in Collectors \ {cycle.failing} :
              metrics[name] = cycle.reading[name]
        /\ cycle.evaluated
        /\ cycle.reported
        /\ cycle.metric_posts # <<>>

\* send_alerts of the current cycle has returned.
AlertsSent == cycle.sent

\* One POST per alert, in order, to /agent/alerts; nothing buffered or
\* counted; a failed POST does not keep the later alerts from being tried.
OnePostPerAlert ==
    /\ Len(cycle.alert_posts) = Len(alerts)
    /\ \A i \in 1..Len(alerts) :
          /\ cycle.alert_posts[i].endpoint = "/agent/alerts"
          /\ cycle.alert_posts[i].payload = alerts[i]
    /\ buffer = cycle.buffered
    /\ consecutive_failures = cycle.failures

\* An adapter without a retry strategy.
NoRetryAdapter ==
    [max_retries |-> [total |-> 0, backoff_factor |-> 0, status_forcelist |-> {}]]

Checked == cycle.evaluated \/ cycle.raised = "check_thresholds"

\* The threshold in force for a metric: the remote one if the server sent
\* one, else the local one.
EffectiveThreshold(name) ==
    IF name \in DOMAIN remote_thresholds.map THEN remote_thresholds.map[name]
    ELSE LocalThresholds[name]

\* The alerts of a type about a subject that the evaluation produced.
AlertsAbout(type, subject) ==
    {i \in 1..Len(alerts) : alerts[i].type = type /\ alerts[i].subject = subject}

\* What the cpu, memory, disk and services collectors measured.
CpuUsage == cycle.reading.cpu.map["usage_percent"]
MemoryPercent == cycle.reading.memory.map["percent"]
DiskPercent(mount) == cycle.reading.disk.map[mount].map["percent"]
ServiceActive(service) == cycle.reading.services.map[service].map["active"]

\* Exactly one alert of the type about the subject when `exceeded`, with
\* the severity given, and none otherwise.
OneAlertIff(type, subject, exceeded, severity) ==
    /\ Cardinality(AlertsAbout(type, subject)) = IF exceeded THEN 1 ELSE 0
    /\ \A i \in AlertsAbout(type, subject) : alerts[i].severity = severity

\* The cpu rule: an alert iff usage > threshold, critical iff usage >= 90.
CpuRule ==
    OneAlertIff("cpu_high", "cpu", CpuUsage > EffectiveThreshold("cpu"),
                IF CpuUsage >= 90 THEN "critical" ELSE "warning")

\* The memory rule, the disk rule per mount, the service rule per service.
MemoryRule ==
    OneAlertIff("memory_high", "memory",
                MemoryPercent > EffectiveThreshold("memory"),
                IF MemoryPercent >= 95 THEN "critical" ELSE "warning")

DiskRule ==
    \A mount \in Mounts :
        OneAlertIff("disk_high", mount,
                    DiskPercent(mount) > EffectiveThreshold("disk"),
                    IF DiskPercent(mount) >= 95 THEN "critical" ELSE "warning")

ServiceRule ==
    \A service \in Services :
        OneAlertIff("service_down", service, ~ServiceActive(service), "critical")

\* C22: check_thresholds emits a cpu_high alert exactly when the cpu usage
\* is strictly above the effective cpu threshold, none at the threshold,
\* and the alert is critical iff the usage is at least 90, else warning,
\* whatever the threshold is.
C22_CpuAlertIffAboveThreshold ==
    (Checked /\ cycle.failing # "cpu") => CpuRule

\* C23: check_thresholds emits memory_high exactly when the memory percent
\* is above the effective memory threshold, one disk_high for each mount
\* whose percent is above the effective disk threshold and none for the
\* others, both critical iff the value is at least 95 and warning
\* otherwise, and one critical service_down for each service that is not
\* active.
C23_MemoryDiskServiceAlerts ==
    Checked =>
        /\ cycle.failing # "memory" => MemoryRule
        /\ cycle.failing # "disk" => DiskRule
        /\ cycle.failing # "services" => ServiceRule

\* C24: evaluation is stateless and level-triggered: check_thresholds
\* leaves thresholds, version, check interval, buffer and failure counter
\* as they were, and in every cycle each metric above its threshold gets
\* its alert, whatever earlier cycles produced or delivered.
C24_StatelessLevelTriggered ==
    Checked =>
        /\ ~cycle.reported => AgentState = cycle.before_check
        /\ (cycle.failing # "cpu" /\ CpuUsage > EffectiveThreshold("cpu"))
              => AlertsAbout("cpu_high", "cpu") # {}
        /\ (cycle.failing # "memory"
               /\ MemoryPercent > EffectiveThreshold("memory"))
              => AlertsAbout("memory_high", "memory") # {}
        /\ cycle.failing # "disk" =>
              \A mount \in Mounts :
                  DiskPercent(mount) > EffectiveThreshold("disk")
                    => AlertsAbout("disk_high", mount) # {}

\* The calls of run_once in the order of its body.
CallOrder ==
    <<"fetch_remote_config", "collect_metrics", "check_thresholds",
      "report_metrics", "send_alerts">>

Position(call) == CHOOSE i \in 1..Len(CallOrder) : CallOrder[i] = call

Called(c, call) == \E i \in 1..Len(c.calls) : c.calls[i] = call

\* The calls of a cycle are in the order of CallOrder, none twice, and
\* none was made without the one before it; only the fetch may be left
\* out at the front, being throttled.
InOrder(c) ==
    /\ \A i \in 1..Len(c.calls) - 1 :
          Position(c.calls[i]) < Position(c.calls[i + 1])
    /\ \A i \in 3..Len(CallOrder) :
          Called(c, CallOrder[i]) => Called(c, CallOrder[i - 1])

IsPrefix(s, t) == Len(s) <= Len(t) /\ SubSeq(t, 1, Len(s)) = s

\* C25: within a cycle the steps come in the order config refresh,
\* collect, evaluate, deliver snapshot, deliver alerts; and a cycle is
\* over - run_once returned and the sleep was taken - before a step of the
\* next cycle happens, after which the finished cycle makes no further
\* call.
C25_FixedOrderNoOverlap ==
    [][ /\ InOrder(cycle')
        /\ cycle'.n = cycle.n =>
              /\ IsPrefix(cycle.calls, cycle'.calls)
              /\ Len(cycle'.calls) <= Len(cycle.calls) + 1
              /\ cycle.slept => cycle'.calls = cycle.calls
        /\ cycle'.n # cycle.n =>
              /\ cycle'.n = cycle.n + 1
              /\ cycle.n > 0 => cycle.slept
              /\ IsPrefix(cycle'.calls, <<"fetch_remote_config">>)
      ]_vars

\* C25 witness: the second cycle made all five calls, the first one
\* having finished.
C25_Witness ==
    /\ cycle.n = 2
    /\ cycle.calls = CallOrder
    /\ cycle.slept

\* An exception reached the except clause of run_once in the current cycle.
RaisedInCycle == cycle.raised # "nowhere"

\* C26: an exception raised inside a cycle is caught at the run_once
\* boundary: run() is not ended by it, and the next scheduled cycle
\* starts.
C26_ExceptionCaughtLoopContinues ==
    /\ [](RaisedInCycle => step \in {"sleep", "idle"})
    /\ \A k \in 1..MaxCycles - 1 :
          (cycle.n = k /\ RaisedInCycle) ~> (cycle.n = k + 1)

\* C26 witness: check_thresholds raised in the first cycle, run_once
\* returned, run() slept and is at the head of the loop again.
C26_Witness ==
    /\ cycle.n = 1
    /\ cycle.raised = "check_thresholds"
    /\ ~cycle.evaluated
    /\ cycle.slept
    /\ step = "idle"

\* C27: run_once fetches the remote config exactly when the time since
\* last_config_check is strictly greater than config_check_interval, and
\* a fetch that fails, in whatever way, does not abort the cycle:
\* collection, evaluation and delivery still run in it.
C27_FetchIffDueFailureHarmless ==
    cycle.n > 0 =>
        /\ cycle.fetched <=> cycle.since_check > cycle.check_interval
        /\ cycle.fetched => last_config_check = cycle.start_time
        /\ (cycle.fetch_failed /\ cycle.slept /\ cycle.failing = NoCollector)
              => /\ cycle.collected
                 /\ cycle.evaluated
                 /\ cycle.reported

\* C28: after each cycle run() sleeps max(0, interval - elapsed): never a
\* negative time and never more than the interval, nothing when the cycle
\* took the interval or longer, and the rest of the interval when it took
\* less, so that cycle and sleep together last one interval.
C28_SleepIsRestOfInterval ==
    cycle.slept =>
        /\ cycle.sleep_time >= 0
        /\ cycle.sleep_time <= Interval
        /\ cycle.elapsed >= Interval => cycle.sleep_time = 0
        /\ cycle.elapsed < Interval =>
              cycle.elapsed + cycle.sleep_time = Interval
        /\ now = cycle.start_time + cycle.elapsed + cycle.sleep_time

\* C28 witness: the first cycle took half an interval longer than the
\* interval and no sleep followed; the second took a third of it and the
\* rest was slept.
C28_Witness ==
    /\ cycle.n = 2
    /\ cycle.slept
    /\ cycle.start_time = StartTime + Interval + Interval \div 2
    /\ cycle.elapsed = Interval \div 3
    /\ cycle.sleep_time = Interval - Interval \div 3

\* The thresholds and the version the agent held when check_thresholds was
\* called in the current cycle.
ThresholdsAtCheck == cycle.before_check[1]
VersionAtCheck == cycle.before_check[2]

\* The alert type of each threshold of active_thresholds.
AlertTypeOf(name) ==
    CASE name = "cpu" -> "cpu_high"
      [] name = "memory" -> "memory_high"
      [] OTHER -> "disk_high"

\* C33: in every cycle whose snapshot was handed to check_thresholds, the
\* cpu, memory and disk thresholds and the version in the snapshot's
\* active_thresholds are those the agent holds when check_thresholds
\* evaluates it, every alert carries the threshold the snapshot records
\* for its metric, and between collect_metrics and check_thresholds
\* neither remote_thresholds nor threshold_version changes.
C33_SnapshotThresholdsAreThoseChecked ==
    /\ [](Checked =>
            /\ \A name \in MetricNames :
                  metrics.active_thresholds[name]
                    = GetThreshold(ThresholdsAtCheck, name, Default(name))
            /\ metrics.active_thresholds.version = VersionAtCheck
            /\ cycle.evaluated =>
                  \A i \in 1..Len(alerts) : \A name \in MetricNames :
                      alerts[i].type = AlertTypeOf(name) =>
                          alerts[i].threshold = metrics.active_thresholds[name])
    /\ [][step = "check" =>
            UNCHANGED <<remote_thresholds, threshold_version>>]_vars

\* C33 witness: the fetch of this cycle brought version 1 with cpu 50; the
\* snapshot records 50 and version 1, and a cpu usage of 79, below the
\* local threshold, is reported against 50.
C33_Witness ==
    /\ cycle.fetched
    /\ cycle.evaluated
    /\ VersionAtCheck = 1
    /\ metrics.active_thresholds.version = 1
    /\ metrics.active_thresholds.cpu = 50
    /\ \E i \in 1..Len(alerts) :
          /\ alerts[i].type = "cpu_high"
          /\ alerts[i].usage = 79
          /\ alerts[i].threshold = 50

\* The buffer and the failure counter when the current cycle began.
BufferAtStart == cycle.at_start[1]
FailuresAtStart == cycle.at_start[2]

\* check_thresholds raised on the snapshot of the current cycle.
CheckRaised == cycle.raised = "check_thresholds"

\* C34: in a cycle whose check_thresholds raised on the collected snapshot,
\* report_metrics and send_alerts are not called: no request is made for
\* the snapshot or for an alert, the snapshot is not in the buffer, and the
\* buffer and consecutive_failures are what they were when the cycle began.
C34_CheckRaisesNothingDelivered ==
    CheckRaised =>
        /\ cycle.collected
        /\ ~cycle.reported
        /\ ~cycle.sent
        /\ cycle.metric_posts = <<>>
        /\ cycle.alert_posts = <<>>
        /\ metrics.timestamp \notin SeqToSet(buffer)
        /\ buffer = BufferAtStart
        /\ consecutive_failures = FailuresAtStart
        /\ step \in {"sleep", "idle"}

\* C34 witness: the first cycle's delivery failed and its snapshot is
\* buffered; in the second cycle the disk collector failed beside a cpu
\* usage of 95, check_thresholds raised and the cycle is over.
C34_Witness ==
    /\ CheckRaised
    /\ cycle.slept
    /\ cycle.n = 2
    /\ cycle.failing = "disk"
    /\ cycle.reading.cpu.map["usage_percent"] = 95
    /\ Len(buffer) = 1
    /\ consecutive_failures = 1

\* last_config_check when the current cycle began.
LastCheckAtStart == cycle.at_start[3]

\* C37: in every cycle that attempted a config fetch, whether the fetch
\* succeeded or failed, last_config_check is the time of that cycle, and
\* in a cycle that attempted none it is what it was; last_config_check
\* never decreases; and the cycle after a failed attempt makes a new
\* attempt only if more than config_check_interval has passed since the
\* failed one.
C37_LastConfigCheckFollowsAttempts ==
    /\ [](cycle.n > 0 =>
            /\ cycle.fetched =>
                  /\ last_config_check = cycle.start_time
                  /\ last_config_check >= LastCheckAtStart
            /\ ~cycle.fetched => last_config_check = LastCheckAtStart)
    /\ [][last_config_check' >= last_config_check]_vars
    /\ [][(/\ cycle.n > 0
            /\ cycle'.n = cycle.n + 1
            /\ cycle.fetched
            /\ cycle.fetch_failed
            /\ cycle'.fetched) =>
              cycle'.start_time - cycle.start_time > config_check_interval]_vars

\* C37 witness: the second cycle began 90 s after the first with a check
\* interval of 60; its fetch was due and failed, and last_config_check
\* moved from the first cycle's time to the second's.
C37_Witness ==
    /\ cycle.n = 2
    /\ cycle.fetched
    /\ cycle.fetch_failed
    /\ cycle.check_interval = 60
    /\ cycle.since_check = 90
    /\ LastCheckAtStart = StartTime
    /\ last_config_check = StartTime + 90

----------------------------------------------------------------------------
(* Cycle claims, checked under SpecOutage *)

\* What report_metrics did with the snapshot of the current cycle.
Delivered ==
    /\ cycle.reported
    /\ cycle.metric_posts[1].ok
Buffered ==
    /\ cycle.reported
    /\ ~cycle.metric_posts[1].ok
    /\ metrics.timestamp \in SeqToSet(cycle.buffered)
Dropped ==
    /\ cycle.reported
    /\ ~cycle.metric_posts[1].ok
    /\ metrics.timestamp \notin SeqToSet(cycle.buffered)

\* C35: in a cycle whose evaluation produced alerts, once report_metrics
\* has returned, whether it delivered, buffered or dropped the snapshot,
\* send_alerts is the next call and POSTs every alert of the evaluation,
\* in order, each once; and after send_alerts, whatever the outcomes of its
\* requests, the buffer and consecutive_failures are as report_metrics left
\* them.
C35_AlertsSentWhateverDeliveryDid ==
    /\ (cycle.evaluated /\ alerts # <<>> /\ cycle.reported) =>
          /\ Delivered \/ Buffered \/ Dropped
          /\ ~cycle.sent => step = "alerts"
          /\ step \in {"sleep", "idle"} => cycle.sent
    /\ cycle.sent =>
          /\ Len(cycle.alert_posts) = Len(alerts)
          /\ \A i \in 1..Len(alerts) :
                /\ cycle.alert_posts[i].endpoint = "/agent/alerts"
                /\ cycle.alert_posts[i].payload = alerts[i]
          /\ buffer = cycle.buffered
          /\ consecutive_failures = cycle.failures

\* C35 witness: the snapshot of the sixth failed cycle in a row was
\* dropped, and both alerts of that cycle were attempted, the first
\* refused and the second accepted.
C35_Witness ==
    /\ Dropped
    /\ cycle.sent
    /\ consecutive_failures = MaxConsecutiveFailures + 1
    /\ Len(buffer) = MaxConsecutiveFailures - 1
    /\ Len(cycle.alert_posts) = 2
    /\ ~cycle.alert_posts[1].ok
    /\ cycle.alert_posts[2].ok

----------------------------------------------------------------------------
(* Lock claims, checked under SpecLock *)

\* A request of the main thread is in flight: sent, not yet returned.
RequestInFlight == step \in {"post_metrics", "post_buffered", "post_alert", "get_config"}

\* C29: the buffer's lock is not held by the requesting thread while a
\* metrics POST, a redelivery POST, an alert POST or the config GET is in
\* flight; the main thread holds it only inside a buffer method, each of
\* which releases it before returning; so a thread that finds the lock
\* free during a request can enter add, get_all and size.
C29_NoLockAcrossRequests ==
    /\ RequestInFlight => (lock # MainThread /\ pc[MainThread] = "idle")
    /\ lock = MainThread <=> pc[MainThread] # "idle"
    /\ lock = MainThread => step \in {"size", "size_log", "get_all", "add",
                                      "size_added"}
    /\ (RequestInFlight /\ lock = NoThread /\ pc[OtherThread] = "idle") =>
          /\ ENABLED SizeEnter(OtherThread)
          /\ ENABLED GetAllEnter(OtherThread)
          /\ nextId <= MaxAdds => ENABLED AddEnter(OtherThread)

\* C29 witness: the redelivery POST of a drained snapshot is in flight
\* while another thread is inside add, holding the lock.
C29_Witness ==
    /\ step = "post_buffered"
    /\ buffered_metrics # <<>>
    /\ lock = OtherThread
    /\ pc[OtherThread] = "add_append"

----------------------------------------------------------------------------
(* MetricBuffer claims, checked under SpecBuf *)

\* Entries whose append has run.
Appended(e) ==
    /\ e < nextId
    /\ ~ \E t \in Threads : pc[t] = "add_append" /\ arg[t] = e

NumAppended == Cardinality({e \in Entries : Appended(e)})

\* No get_all has taken anything out of the buffer so far.
NothingDrained ==
    /\ \A e \in Entries : returned[e] = 0
    /\ \A t \in Threads : local[t] = <<>>

Min(a, b) == IF a <= b THEN a ELSE b

\* The last n of the entries 1..k, in insertion order.
LastOf(k, n) == [i \in 1..n |-> k - n + i]

StrictlyIncreasing(s) == \A i \in 1..Len(s) - 1 : s[i] < s[i + 1]

\* C5: a MetricBuffer of capacity N never holds more than N entries; an add
\* on a full buffer evicts exactly the oldest entry and keeps the other N-1
\* in order followed by the new one, so that while nothing has been drained
\* the buffer holds the last min(k, N) of the k entries added.
C5_BoundedFifoEviction ==
    /\ Len(buffer) <= maxlen
    /\ lastOp.op = "add" =>
         /\ Len(lastOp.post) <= maxlen
         /\ Len(lastOp.pre) < maxlen => lastOp.post = Append(lastOp.pre, lastOp.arg)
         /\ Len(lastOp.pre) = maxlen =>
              /\ Len(lastOp.post) = maxlen
              /\ lastOp.post[maxlen] = lastOp.arg
              /\ \A i \in 1..maxlen - 1 : lastOp.post[i] = lastOp.pre[i + 1]
              /\ Head(lastOp.pre) \in evicted
              /\ Head(lastOp.pre) \notin SeqToSet(lastOp.post)
    /\ NothingDrained /\ (\A t \in Threads : pc[t] # "get_return") =>
         buffer = LastOf(NumAppended, Min(NumAppended, maxlen))

\* C5 witness: an add has just run on a full buffer of the largest capacity
\* after one more add than the capacity, nothing drained.
C5_Witness ==
    /\ maxlen = BufCap
    /\ lastOp.op = "add"
    /\ Len(lastOp.pre) = maxlen
    /\ NothingDrained
    /\ NumAppended = maxlen + 1

\* C6: get_all returns every held entry, oldest first, and leaves the buffer
\* empty; a get_all that directly follows a get_all returns the empty list.
C6_GetAllDrainsInOrder ==
    lastOp.op = "get_all" =>
        /\ lastOp.ret = lastOp.pre
        /\ StrictlyIncreasing(lastOp.ret)
        /\ lastOp.post = <<>>
        /\ prevOp.op = "get_all" => lastOp.ret = <<>>

\* C6 witness: a get_all that returned two entries was followed by a second
\* get_all.
C6_Witness ==
    /\ lastOp.op = "get_all"
    /\ prevOp.op = "get_all"
    /\ Len(prevOp.ret) >= 2

Count(s, e) == Cardinality({i \in 1..Len(s) : s[i] = e})

\* Entries a get_all has taken out of the buffer and not yet returned.
InFlight(e) == Cardinality({t \in Threads : pc[t] = "get_return" /\ Count(local[t], e) > 0})

\* C7: the buffer methods exclude each other (a thread inside a method holds
\* the lock), and every added entry is in exactly one place: in the buffer,
\* returned by exactly one get_all (or about to be), or evicted by overflow.
C7_ExclusiveAndConserving ==
    /\ \A t \in Threads : pc[t] # "idle" => lock = t
    /\ \A e \in Entries :
         Count(buffer, e) + InFlight(e) + returned[e]
           + (IF e \in evicted THEN 1 ELSE 0)
         = (IF Appended(e) THEN 1 ELSE 0)

\* C7 witness: one entry evicted, one returned by a get_all, one being
\* returned by another get_all, while a further add has happened.
C7_Witness ==
    /\ evicted # {}
    /\ \E e \in Entries : returned[e] = 1
    /\ \E t \in Threads : pc[t] = "get_return" /\ local[t] # <<>>
    /\ \E e \in Entries : Appended(e) /\ InFlight(e) = 1

====
